---------------------------- MODULE Spec2Model ----------------------------
(***************************************************************************)
(* Model of the arbitrage math engine                                      *)
(* (ultra-fast-arbitrage-engine/native/src/math.rs and the call boundary   *)
(* in lib.rs).                                                             *)
(*                                                                         *)
(* NUMBERS.  The engine computes in IEEE-754 f64 (binary64), and so does   *)
(* the model: a value is NaN, +/-infinity, +/-0 or a finite number with a  *)
(* significand of 53 bits, normal or subnormal; +, -, * and / compute the  *)
(* exact result and round it to nearest (ties to even), with overflow to   *)
(* infinity and gradual underflow; every ordered comparison with NaN is    *)
(* false; f64::max and f64::min return the other operand when one is NaN.  *)
(* TLC's integers have 32 bits, so a significand is kept as a sequence of  *)
(* 15-bit limbs.                                                           *)
(*                                                                         *)
(* Two results are not fixed by the language and are choices of the build: *)
(* which operand f64::max and f64::min return when the two compare equal   *)
(* (+0.0 and -0.0), and which of the two f64 next to the exact power       *)
(* f64::powf returns (its precision is unspecified; the C library's pow is *)
(* within one unit in the last place, not correctly rounded).  The         *)
(* variable build holds these choices, every one of them is a behaviour,   *)
(* and the functions whose result depends on them take them as their first *)
(* parameter bld.  The fold of compute_aggregator_slippage has a choice    *)
(* for each of its iterations, as its loop is unrolled.                    *)
(***************************************************************************)
EXTENDS Integers, Sequences, FiniteSets

VARIABLES
    build,  \* what the build does where the language leaves a result open
    op,     \* the function being executed
    pc,     \* the position inside it
    inp,    \* its arguments (a record named after the parameters)
    loc,    \* its local variables (a record named after the locals)
    ret     \* its return value, once pc = "done"

vars == <<build, op, pc, inp, loc, ret>>

-----------------------------------------------------------------------------
(* natural numbers of any size: sequences of 15-bit limbs, least significant
   limb first, without a most significant zero limb (zero is << >>) *)

Base == 32768

Pow2(s) == <<1, 2, 4, 8, 16, 32, 64, 128, 256, 512, 1024, 2048, 4096, 8192, 16384, 32768>>[s + 1]

\* the number of bits of a limb
LimbBits(d) ==
    IF d < 256
    THEN IF d < 16 THEN (IF d < 4 THEN (IF d < 2 THEN d ELSE 2) ELSE (IF d < 8 THEN 3 ELSE 4))
                   ELSE (IF d < 64 THEN (IF d < 32 THEN 5 ELSE 6) ELSE (IF d < 128 THEN 7 ELSE 8))
    ELSE IF d < 4096 THEN (IF d < 1024 THEN (IF d < 512 THEN 9 ELSE 10) ELSE (IF d < 2048 THEN 11 ELSE 12))
                     ELSE (IF d < 16384 THEN (IF d < 8192 THEN 13 ELSE 14) ELSE 15)

NLimb(a, i) == IF i >= 1 /\ i <= Len(a) THEN a[i] ELSE 0

NZeros(k) == [i \in 1..k |-> 0]

\* a without its most significant zero limbs
NTrim(a) ==
    IF \A i \in 1..Len(a) : a[i] = 0 THEN << >>
    ELSE SubSeq(a, 1, CHOOSE i \in 1..Len(a) :
                          a[i] # 0 /\ \A j \in (i + 1)..Len(a) : a[j] = 0)

\* a natural number below 2^31
NFromInt(n) ==
    IF n = 0 THEN << >>
    ELSE IF n < Base THEN <<n>>
    ELSE IF n \div Base < Base THEN <<n % Base, n \div Base>>
    ELSE <<n % Base, (n \div Base) % Base, n \div (Base * Base)>>

NBitLen(a) == IF a = << >> THEN 0 ELSE 15 * (Len(a) - 1) + LimbBits(a[Len(a)])

\* bit n of a (bit 0 is the least significant)
NBit(a, n) == (NLimb(a, (n \div 15) + 1) \div Pow2(n % 15)) % 2

\* the n least significant bits of a are all zero
NLowZero(a, n) ==
    /\ \A i \in 1..(n \div 15) : NLimb(a, i) = 0
    /\ NLimb(a, (n \div 15) + 1) % Pow2(n % 15) = 0

NCmpAt(a, b, i) == IF a[i] < b[i] THEN -1 ELSE 1

\* -1, 0 or 1 as a < b, a = b or a > b: the most significant limb that differs
NCmp(a, b) ==
    IF Len(a) # Len(b) THEN (IF Len(a) < Len(b) THEN -1 ELSE 1)
    ELSE IF a = b THEN 0
    ELSE NCmpAt(a, b, CHOOSE i \in 1..Len(a) :
                          a[i] # b[i] /\ \A j \in (i + 1)..Len(a) : a[j] = b[j])

\* Columns are limbs before the carries: a sequence x of integers stands for
\* the sum of x[i] * Base^(i-1).  The limbs of the columns lo..hi with the
\* carry c brought in, and the carry brought out; the range is halved so that
\* the evaluation stays shallow.
RECURSIVE NCarryRange(_, _, _, _)
NCarryJoin(low, high) == [d |-> low.d \o high.d, c |-> high.c]
NCarryHigh(x, mid, hi, low) ==
    IF low.d = << >> THEN NCarryRange(x, mid + 1, hi, low.c)
    ELSE NCarryJoin(low, NCarryRange(x, mid + 1, hi, low.c))
NCarryRange(x, lo, hi, c) ==
    IF lo > hi THEN [d |-> << >>, c |-> c]
    ELSE IF lo = hi
    THEN [d |-> <<(x[lo] + c) % Base>>, c |-> (x[lo] + c) \div Base]
    ELSE NCarryHigh(x, (lo + hi) \div 2, hi, NCarryRange(x, lo, (lo + hi) \div 2, c))

NCarryOut(r) == NTrim(r.d \o <<r.c>>)

\* the natural number of the columns x
NCarry(x) == NCarryOut(NCarryRange(x, 1, Len(x), 0))

NAdd(a, b) ==
    NCarry([i \in 1..(IF Len(a) > Len(b) THEN Len(a) ELSE Len(b)) |->
               NLimb(a, i) + NLimb(b, i)])

\* a - b, for a >= b
NSub(a, b) == NCarry([i \in 1..Len(a) |-> a[i] - NLimb(b, i)])

\* a * d, for a limb d (0 <= d <= Base)
NMulSmall(a, d) == NCarry([i \in 1..Len(a) |-> a[i] * d])

RECURSIVE SumRange(_, _, _)
SumRange(x, lo, hi) ==
    IF lo > hi THEN 0
    ELSE IF lo = hi THEN x[lo]
    ELSE SumRange(x, lo, (lo + hi) \div 2) + SumRange(x, (lo + hi) \div 2 + 1, hi)

\* column k of a * b: the low halves of the products of limbs i and k + 1 - i
\* and the high halves of the products of limbs i and k - i
NMulColumn(a, b, k) ==
    SumRange([i \in 1..Len(a) |-> ((a[i] * NLimb(b, k + 1 - i)) % Base)
                                  + ((a[i] * NLimb(b, k - i)) \div Base)], 1, Len(a))

NMul(a, b) == NCarry([k \in 1..(Len(a) + Len(b)) |-> NMulColumn(a, b, k)])

\* limbs hi, hi-1, .. lo of the quotient of a by a limb d (1 <= d <= Base),
\* with the remainder r of the limbs above, as [d |-> limbs, c |-> remainder]
RECURSIVE NDivSmallRange(_, _, _, _, _)
NDivSmallJoin(low, high) == [d |-> low.d \o high.d, c |-> low.c]
NDivSmallLow(a, d, mid, lo, high) ==
    IF high.d = << >> THEN NDivSmallRange(a, d, mid, lo, high.c)
    ELSE NDivSmallJoin(NDivSmallRange(a, d, mid, lo, high.c), high)
NDivSmallRange(a, d, hi, lo, r) ==
    IF hi < lo THEN [d |-> << >>, c |-> r]
    ELSE IF hi = lo
    THEN [d |-> <<(r * Base + a[hi]) \div d>>, c |-> (r * Base + a[hi]) % d]
    ELSE NDivSmallLow(a, d, (hi + lo) \div 2, lo,
                      NDivSmallRange(a, d, hi, (hi + lo) \div 2 + 1, r))

\* a \div d, for a limb d (1 <= d <= Base)
NDivSmall(a, d) == NTrim(NDivSmallRange(a, d, Len(a), 1, 0).d)

\* a * 2^k and a \div 2^k for 0 <= k < 15
NShlBits(a, k) ==
    NTrim([i \in 1..(Len(a) + 1) |->
              ((NLimb(a, i) * Pow2(k)) % Base) + (NLimb(a, i - 1) \div Pow2(15 - k))])
NShrBits(a, k) ==
    NTrim([i \in 1..Len(a) |->
              (a[i] \div Pow2(k)) + ((NLimb(a, i + 1) % Pow2(k)) * Pow2(15 - k))])

\* a * 2^n
NShl(a, n) ==
    IF a = << >> THEN << >> ELSE NZeros(n \div 15) \o NShlBits(a, n % 15)

\* a \div 2^n
NShr(a, n) ==
    IF (n \div 15) >= Len(a) THEN << >>
    ELSE NShrBits(SubSeq(a, (n \div 15) + 1, Len(a)), n % 15)

\* the greatest limb q with q * b <= r, from an estimate qhat >= q
RECURSIVE NDivDigit(_, _, _)
NDivDigit(r, b, qhat) ==
    IF NCmp(NMulSmall(b, qhat), r) > 0 THEN NDivDigit(r, b, qhat - 1) ELSE qhat

\* the estimate of the quotient limb of r by b from their leading limbs,
\* for r < b * Base and a leading limb of b of 15 bits: at most 2 too large
NDivEstimate(r, b) ==
    LET t == (NLimb(r, Len(b) + 1) * Base + NLimb(r, Len(b))) \div b[Len(b)]
    IN  IF t >= Base THEN Base - 1 ELSE t

\* one limb of a long division: the quotient limb qd of r1 by b and the
\* remainder
NDivOne(r1, b, qd) == [q |-> <<qd>>, r |-> NSub(r1, NMulSmall(b, qd))]
NDivLimb(r1, b) == NDivOne(r1, b, NDivDigit(r1, b, NDivEstimate(r1, b)))

\* limbs hi, hi-1, .. lo of the quotient of a by b, with the remainder r of
\* the limbs above
RECURSIVE NDivRange(_, _, _, _, _)
NDivJoin(low, high) == [q |-> low.q \o high.q, r |-> low.r]
NDivLow(a, b, mid, lo, high) ==
    IF high.q = << >> THEN NDivRange(a, b, mid, lo, high.r)
    ELSE NDivJoin(NDivRange(a, b, mid, lo, high.r), high)
NDivRange(a, b, hi, lo, r) ==
    IF hi < lo THEN [q |-> << >>, r |-> r]
    ELSE IF hi = lo THEN NDivLimb(NTrim(<<a[hi]>> \o r), b)
    ELSE NDivLow(a, b, (hi + lo) \div 2, lo,
                 NDivRange(a, b, hi, (hi + lo) \div 2 + 1, r))

NDivResult(d) == [q |-> NTrim(d.q), exact |-> d.r = << >>]

\* the division of a by b when the leading limb of b has 15 bits
NDivNormal(a, b) == NDivResult(NDivRange(a, b, Len(a), 1, << >>))

\* [q |-> a \div b, exact |-> a % b = 0], for b > 0
NDivMod(a, b) ==
    NDivNormal(NShl(a, 15 - LimbBits(b[Len(b)])), NShl(b, 15 - LimbBits(b[Len(b)])))

-----------------------------------------------------------------------------
(* f64 arithmetic (IEEE-754 binary64, round to nearest, ties to even) *)

\* A value is a record: k is "nan", "inf" or "fin"; s is the sign bit; for a
\* finite value m is the significand, a natural number below 2^53, and e the
\* exponent of its last bit: the value is (-1)^s * m * 2^e.  A normal value
\* has a significand of 53 bits and -1074 <= e <= 971, a subnormal one has
\* e = -1074, and the two zeros have m = 0 and e = 0.
NaN     == [k |-> "nan", s |-> 0, m |-> << >>, e |-> 0]
PosInf  == [k |-> "inf", s |-> 0, m |-> << >>, e |-> 0]
NegInf  == [k |-> "inf", s |-> 1, m |-> << >>, e |-> 0]
Zero    == [k |-> "fin", s |-> 0, m |-> << >>, e |-> 0]
NegZero == [k |-> "fin", s |-> 1, m |-> << >>, e |-> 0]

Abs(n) == IF n < 0 THEN -n ELSE n

Pow10(d) == <<1, 10, 100, 1000, 10000, 100000, 1000000, 10000000, 100000000, 1000000000>>[d + 1]

SignificandBits == 53
MinExponent == -1074
MaxExponent == 971

Inf(s) == IF s = 0 THEN PosInf ELSE NegInf
FZero(s) == IF s = 0 THEN Zero ELSE NegZero

\* the f64 of q * 2^t for a significand q of at most 53 bits and t >= -1074,
\* after the rounding has been done
Pack(s, q, t) ==
    IF q = << >> THEN FZero(s)
    ELSE IF NBitLen(q) > SignificandBits
         THEN (IF t + 1 > MaxExponent THEN Inf(s)
               ELSE [k |-> "fin", s |-> s, m |-> NShr(q, 1), e |-> t + 1])
    ELSE IF t > MaxExponent THEN Inf(s)
    ELSE [k |-> "fin", s |-> s, m |-> q, e |-> t]

\* n rounded at bit `shift` (shift >= 1) goes up: the bits dropped are more
\* than half a unit, or exactly half and the bit kept last is 1; sticky says
\* that the exact value is a little greater than n
RoundsUp(n, shift, sticky) ==
    /\ NBit(n, shift - 1) = 1
    /\ (sticky \/ ~NLowZero(n, shift - 1) \/ NBit(n, shift) = 1)

NIncrement(q, up) == IF up THEN NAdd(q, <<1>>) ELSE q

\* (-1)^s * n * 2^e with its last bit kept at exponent t
RoundTo(s, n, e, t, sticky) ==
    Pack(s,
         IF t <= e THEN NShl(n, e - t)
         ELSE NIncrement(NShr(n, t - e), RoundsUp(n, t - e, sticky)),
         t)

\* the exponent of the last bit of a value whose first bit has exponent u - 1
LastBit(u) ==
    IF u - SignificandBits < MinExponent THEN MinExponent ELSE u - SignificandBits

\* the f64 nearest to (-1)^s * n * 2^e, for a natural number n > 0
Round(s, n, e, sticky) == RoundTo(s, n, e, LastBit(e + NBitLen(n)), sticky)

IsNaN(x) == x.k = "nan"
IsInf(x) == x.k = "inf"
IsFin(x) == x.k = "fin"
IsZero(x) == x.k = "fin" /\ x.m = << >>

FNeg(x) == IF x.k = "nan" THEN NaN ELSE [x EXCEPT !.s = 1 - x.s]
FAbs(x) == IF x.k = "nan" THEN NaN ELSE [x EXCEPT !.s = 0]

\* the f64 of an integer literal, and i as f64
I(n) == IF n = 0 THEN Zero ELSE Round(IF n < 0 THEN 1 ELSE 0, NFromInt(Abs(n)), 0, FALSE)

\* (-1)^sa * a + (-1)^sb * b for natural numbers a, b > 0, as a sign and a
\* magnitude
SignedSum(sa, a, sb, b) ==
    IF sa = sb THEN [s |-> sa, n |-> NAdd(a, b)]
    ELSE IF NCmp(a, b) >= 0 THEN [s |-> sa, n |-> NSub(a, b)]
    ELSE [s |-> sb, n |-> NSub(b, a)]

\* the f64 of a sum d of significands at exponent e
RoundSum(d, e, sticky) ==
    IF d.n = << >> THEN Zero ELSE Round(d.s, d.n, e, sticky)

\* the sum of two finite non-zero values; hi is the one of the greater
\* exponent.  When lo is below a quarter of the last bit of hi, it only
\* decides on which side of hi the sum lies.
AddFinite(hi, lo) ==
    IF hi.e - lo.e > 64
    THEN RoundSum([s |-> hi.s,
                   n |-> IF hi.s = lo.s THEN NShl(hi.m, 3)
                         ELSE NSub(NShl(hi.m, 3), <<1>>)], hi.e - 3, TRUE)
    ELSE RoundSum(SignedSum(hi.s, NShl(hi.m, hi.e - lo.e), lo.s, lo.m), lo.e, FALSE)

\* x + y
FAdd(x, y) ==
    IF x.k = "nan" \/ y.k = "nan" THEN NaN
    ELSE IF x.k = "inf"
         THEN (IF y.k = "inf" /\ y.s # x.s THEN NaN ELSE x)
    ELSE IF y.k = "inf" THEN y
    ELSE IF x.m = << >> /\ y.m = << >> THEN (IF x.s = 1 /\ y.s = 1 THEN NegZero ELSE Zero)
    ELSE IF x.m = << >> THEN y
    ELSE IF y.m = << >> THEN x
    ELSE AddFinite(IF x.e >= y.e THEN x ELSE y, IF x.e >= y.e THEN y ELSE x)

\* x - y
FSub(x, y) == FAdd(x, FNeg(y))

\* x * y
FMul(x, y) ==
    IF x.k = "nan" \/ y.k = "nan" THEN NaN
    ELSE IF x.k = "inf" \/ y.k = "inf"
         THEN (IF IsZero(x) \/ IsZero(y) THEN NaN ELSE Inf((x.s + y.s) % 2))
    ELSE IF x.m = << >> \/ y.m = << >> THEN FZero((x.s + y.s) % 2)
    ELSE Round((x.s + y.s) % 2, NMul(x.m, y.m), x.e + y.e, FALSE)

\* the quotient of two finite non-zero values: 2^k * x.m is divided by y.m
\* for a quotient of at least 56 bits, whose remainder is the sticky bit
RoundQuotient(s, d, e) == Round(s, d.q, e, ~d.exact)
DivFinite(x, y, k) ==
    RoundQuotient((x.s + y.s) % 2, NDivMod(NShl(x.m, k), y.m), x.e - y.e - k)

\* x / y
FDiv(x, y) ==
    IF x.k = "nan" \/ y.k = "nan" THEN NaN
    ELSE IF x.k = "inf"
         THEN (IF y.k = "inf" THEN NaN ELSE Inf((x.s + y.s) % 2))
    ELSE IF y.k = "inf" THEN FZero((x.s + y.s) % 2)
    ELSE IF y.m = << >>
         THEN (IF x.m = << >> THEN NaN ELSE Inf((x.s + y.s) % 2))
    ELSE IF x.m = << >> THEN FZero((x.s + y.s) % 2)
    ELSE DivFinite(x, y, 57 + NBitLen(y.m) - NBitLen(x.m))

\* the f64 of the decimal literal n * 10^e (the literals of the source have
\* at most 9 digits before and after the point)
Fl(n, e) ==
    FDiv(I(IF e >= 0 THEN n * Pow10(e) ELSE n), I(IF e >= 0 THEN 1 ELSE Pow10(-e)))

\* x < y
FLt(x, y) ==
    IF x.k = "nan" \/ y.k = "nan" THEN FALSE
    ELSE IF IsZero(x) /\ IsZero(y) THEN FALSE
    ELSE IF x.s # y.s THEN x.s = 1
    ELSE IF x.k = "inf" THEN x.s = 1 /\ y.k # "inf"
    ELSE IF y.k = "inf" THEN y.s = 0
    ELSE IF x.m = << >> THEN y.s = 0
    ELSE IF y.m = << >> THEN x.s = 1
    ELSE LET c == IF x.e + NBitLen(x.m) # y.e + NBitLen(y.m)
                  THEN (IF x.e + NBitLen(x.m) < y.e + NBitLen(y.m) THEN -1 ELSE 1)
                  ELSE IF x.e >= y.e THEN NCmp(NShl(x.m, x.e - y.e), y.m)
                  ELSE NCmp(x.m, NShl(y.m, y.e - x.e))
         IN  IF x.s = 0 THEN c < 0 ELSE c > 0

FEq(x, y) == x.k # "nan" /\ y.k # "nan" /\ (x = y \/ (IsZero(x) /\ IsZero(y)))
FLe(x, y) == FLt(x, y) \/ FEq(x, y)
FGt(x, y) == FLt(y, x)
FGe(x, y) == FLe(y, x)

\* the choices of a build: the operand returned of two that compare equal, and
\* the side of the exact power on which powf's result lies
EqualOperands == { "self", "other" }
PowfRoundings == { "toward_zero", "away" }

\* the operand f64::max and f64::min return when x and y compare equal: the
\* two differ only as +0.0 and -0.0, and the build returns self or the other
EqualOperand(bld, x, y) ==
    IF x = y THEN x ELSE IF bld.equal_operands = "self" THEN x ELSE y

\* f64::max and f64::min: the other operand when one is NaN
FMax(bld, x, y) ==
    IF x.k = "nan" THEN y ELSE IF y.k = "nan" THEN x
    ELSE IF FLt(x, y) THEN y ELSE IF FLt(y, x) THEN x ELSE EqualOperand(bld, x, y)
FMin(bld, x, y) ==
    IF x.k = "nan" THEN y ELSE IF y.k = "nan" THEN x
    ELSE IF FLt(y, x) THEN y ELSE IF FLt(x, y) THEN x ELSE EqualOperand(bld, x, y)

One == I(1)

-----------------------------------------------------------------------------
(* f64::powf *)

\* y is an integer; y is an odd integer
IsInteger(y) ==
    /\ y.k = "fin"
    /\ \/ y.m = << >>
       \/ y.e >= 0
       \/ (-y.e < SignificandBits /\ NLowZero(y.m, -y.e))
IsOddInteger(y) ==
    /\ IsInteger(y) /\ y.m # << >>
    /\ y.e <= 0 /\ NBit(y.m, -y.e) = 1

\* the magnitude of an integer y below 2^30
IntOf(y) ==
    LET n == IF y.e >= 0 THEN NShl(y.m, y.e) ELSE NShr(y.m, -y.e)
    IN  NLimb(n, 1) + Base * NLimb(n, 2)

\* a^n for n >= 1
RECURSIVE NPow(_, _)
NSquare(a) == NMul(a, a)
NPow(a, n) ==
    IF n = 1 THEN a
    ELSE IF n % 2 = 0 THEN NSquare(NPow(a, n \div 2))
    ELSE NMul(NSquare(NPow(a, n \div 2)), a)

\* the f64 next to (-1)^s * n * 2^e toward zero, or away from zero: the last
\* bit is kept at exponent t < e + NBitLen(n), and sticky says that the exact
\* value is a little greater than n
RoundToward(away, s, n, e, t, sticky) ==
    Pack(s,
         IF t <= e THEN NShl(n, e - t)
         ELSE NIncrement(NShr(n, t - e), away /\ (sticky \/ ~NLowZero(n, t - e))),
         t)

\* what powf returns for the exact power (-1)^s * n * 2^e: one of the two f64
\* next to it, as the build has it (a power below the least subnormal is 0.0
\* or the least subnormal, a power above the greatest f64 is the greatest f64
\* or infinite); an exact power that is an f64 is returned as it is
PowfRound(bld, s, n, e, sticky) ==
    RoundToward(bld.powf = "away", s, n, e, LastBit(e + NBitLen(n)), sticky)

\* the exponents up to which x^y is computed from the exact power
MaxExactPower == 16

\* (-1)^s * x^n and (-1)^s / x^n for finite x > 0 and 1 <= n <= MaxExactPower,
\* from the exact power
PowExact(bld, s, x, n) == PowfRound(bld, s, NPow(x.m, n), x.e * n, FALSE)
PowInverse(bld, s, d, e) == PowfRound(bld, s, d.q, e, ~d.exact)
PowExactInverseOf(bld, s, p, e) ==
    PowInverse(bld, s, NDivMod(NShl(<<1>>, NBitLen(p) + 57), p), e - (NBitLen(p) + 57))
PowExactInverse(bld, s, x, n) == PowExactInverseOf(bld, s, NPow(x.m, n), -(x.e * n))

\* Fixed-point numbers for the logarithm and the exponential: the natural
\* number a stands for a / 2^FracBits; a signed one is [s |-> sign, n |-> a].
FracLimbs == 9
FracBits == 135
FxOne == NZeros(FracLimbs) \o <<1>>
FxFloor(p) == IF Len(p) <= FracLimbs THEN << >> ELSE SubSeq(p, FracLimbs + 1, Len(p))
FxMul(a, b) == FxFloor(NMul(a, b))
FxDiv(a, b) == NDivMod(NZeros(FracLimbs) \o a, b).q

SAdd(a, b) ==
    IF a.s = b.s THEN [s |-> a.s, n |-> NAdd(a.n, b.n)]
    ELSE IF NCmp(a.n, b.n) >= 0 THEN [s |-> a.s, n |-> NSub(a.n, b.n)]
    ELSE [s |-> b.s, n |-> NSub(b.n, a.n)]

\* a series summed so far: acc is the sum, t the power or the quotient that
\* makes the next term, k the index of that term, z the ratio of the series
Series(acc, t, z, k) == [acc |-> acc, t |-> t, z |-> z, k |-> k]

\* the terms of a series that are summed at most: the terms of both series
\* vanish in fixed point before
SeriesTerms == 64

\* n more terms of acc + t/k + t*z/(k+2) + t*z^2/(k+4) + ..
AtanhTerm(st) ==
    IF st.t = << >> THEN st
    ELSE Series(NAdd(st.acc, NDivSmall(st.t, st.k)), FxMul(st.t, st.z), st.z, st.k + 2)
RECURSIVE AtanhSum(_, _)
AtanhSum(st, n) ==
    IF n = 1 \/ st.t = << >> THEN AtanhTerm(st)
    ELSE AtanhSum(AtanhSum(st, n \div 2), n - n \div 2)

\* atanh z = z + z^3/3 + z^5/5 + ..
Atanh(z) == AtanhSum(Series(<< >>, z, FxMul(z, z), 1), SeriesTerms).acc

\* ln 2 = 0.693147180559945309417232.., in fixed point
Ln2 == <<22432, 29430, 12295, 3790, 24143, 30618, 31289, 1533, 22713>>

\* ln f = 2 atanh((f - 1) / (f + 1)), for a fixed-point f in [3/4, 3/2]
LnFx(f) ==
    IF NCmp(f, FxOne) >= 0
    THEN [s |-> 0, n |-> NMulSmall(Atanh(FxDiv(NSub(f, FxOne), NAdd(f, FxOne))), 2)]
    ELSE [s |-> 1, n |-> NMulSmall(Atanh(FxDiv(NSub(FxOne, f), NAdd(f, FxOne))), 2)]

\* ln x for finite x > 0: x = f * 2^g with f in [3/4, 3/2]
Ln(x) ==
    LET l == NBitLen(x.m)
        big == NBit(x.m, l - 2) = 1     \* the significand is 1.1.. in binary
        g == IF big THEN x.e + l ELSE x.e + l - 1
        f == NShl(x.m, IF big THEN FracBits - l ELSE FracBits - l + 1)
    IN  SAdd([s |-> IF g < 0 THEN 1 ELSE 0, n |-> NMul(Ln2, NFromInt(Abs(g)))], LnFx(f))

\* n more terms of acc + t + t*z/k + t*z^2/(k(k+1)) + ..
ExpTerm(st) ==
    IF st.t = << >> THEN st
    ELSE Series(NAdd(st.acc, st.t), NDivSmall(FxMul(st.t, st.z), st.k), st.z, st.k + 1)
RECURSIVE ExpSum(_, _)
ExpSum(st, n) ==
    IF n = 1 \/ st.t = << >> THEN ExpTerm(st)
    ELSE ExpSum(ExpSum(st, n \div 2), n - n \div 2)

\* the bits of a fixed-point result beyond an f64's last bit that are looked
\* at to tell a power that is an f64 from one that lies between two
GuardBits == 40

\* the bits of n from bit `from` on are GuardBits zeros or GuardBits ones
GuardZero(g) == NLowZero(g, GuardBits) \/ NLowZero(NAdd(g, <<1>>), GuardBits)
AtFloat(n, from) == GuardZero(NShr(n, from))

\* what powf returns for a power known as n * 2^e to 2^-120: the power is an
\* f64 when n is as near to one as the fixed point can tell
PowfNear(bld, s, n, e) ==
    IF AtFloat(n, LastBit(e + NBitLen(n)) - e - GuardBits)
    THEN Round(s, n, e, FALSE)
    ELSE PowfRound(bld, s, n, e, FALSE)

\* e^p for a signed fixed-point p of magnitude below 2^12, as an f64 of sign s:
\* p = k ln 2 + r with 0 <= r < ln 2, and e^p = e^r * 2^k
ExpFx(bld, s, p) ==
    LET q0 == NDivMod(p.n, Ln2).q
        r0 == NSub(p.n, NMul(q0, Ln2))
        k0 == NLimb(q0, 1)
        k  == IF p.s = 0 THEN k0 ELSE IF r0 = << >> THEN -k0 ELSE -k0 - 1
        r  == IF p.s = 0 \/ r0 = << >> THEN r0 ELSE NSub(Ln2, r0)
    IN  PowfNear(bld, s, ExpSum(Series(<< >>, FxOne, r, 1), SeriesTerms).acc, k - FracBits)

\* (-1)^s * x^y for finite x > 0, x # 1, and finite y # 0: e^(y ln x)
PowLog(bld, s, x, y) ==
    LET l == Ln(x)
        n == NMul(l.n, y.m)
        ps == (l.s + y.s) % 2
    IN  IF NBitLen(n) + y.e - FracBits > 11
        THEN (IF ps = 0 THEN Inf(s) ELSE FZero(s))
        ELSE ExpFx(bld, s, [s |-> ps, n |-> IF y.e >= 0 THEN NShl(n, y.e) ELSE NShr(n, -y.e)])

\* f64::powf(x, y)
FPow(bld, x, y) ==
    IF IsZero(y) THEN One
    ELSE IF x = One THEN One
    ELSE IF x.k = "nan" \/ y.k = "nan" THEN NaN
    ELSE IF y.k = "inf"
         THEN IF FAbs(x) = One THEN One
              ELSE IF FLt(FAbs(x), One) THEN (IF y.s = 0 THEN Zero ELSE PosInf)
              ELSE (IF y.s = 0 THEN PosInf ELSE Zero)
    ELSE IF x.k = "inf"
         THEN IF y.s = 1 THEN FZero(IF x.s = 1 /\ IsOddInteger(y) THEN 1 ELSE 0)
              ELSE Inf(IF x.s = 1 /\ IsOddInteger(y) THEN 1 ELSE 0)
    ELSE IF IsZero(x)
         THEN IF y.s = 1 THEN Inf(IF x.s = 1 /\ IsOddInteger(y) THEN 1 ELSE 0)
              ELSE FZero(IF x.s = 1 /\ IsOddInteger(y) THEN 1 ELSE 0)
    ELSE IF x.s = 1 /\ ~IsInteger(y) THEN NaN
    ELSE LET s == IF x.s = 1 /\ IsOddInteger(y) THEN 1 ELSE 0
         IN  IF FAbs(x) = One THEN [One EXCEPT !.s = s]
             ELSE IF IsInteger(y) /\ FLe(FAbs(y), I(MaxExactPower))
             THEN (IF y.s = 0 THEN PowExact(bld, s, x, IntOf(y))
                   ELSE PowExactInverse(bld, s, x, IntOf(y)))
             ELSE PowLog(bld, s, FAbs(x), y)

-----------------------------------------------------------------------------
(* the f64 literals of math.rs *)

L0_0001 == Fl(1, -4)
L0_01   == Fl(1, -2)
L0_1    == Fl(1, -1)
L0_3    == Fl(3, -1)
L0_997  == Fl(997, -3)
L0_9996 == Fl(9996, -4)
L2      == I(2)
L100    == I(100)
L997    == I(997)
L1000   == I(1000)

-----------------------------------------------------------------------------
(* math.rs: the slippage estimators *)

\* lines 4-23
compute_uniswap_v2_slippage(bld, reserve_in, reserve_out, amount_in) ==
    IF FEq(amount_in, Zero) THEN Zero
    ELSE LET amount_in_with_fee == FMul(amount_in, L0_997)
             numerator   == FMul(amount_in_with_fee, reserve_out)
             denominator == FAdd(reserve_in, amount_in_with_fee)
             amount_out  == FDiv(numerator, denominator)
             expected_amount_out == FMul(FDiv(amount_in, reserve_in), reserve_out)
             slippage == FMul(FDiv(FSub(expected_amount_out, amount_out),
                                   expected_amount_out), L100)
         IN  FMax(bld, slippage, Zero)

\* one of the divisors is zero (+0.0 or -0.0)
DividesByZero(divisors) == \E d \in divisors : FEq(d, Zero)

\* the divisors compute_uniswap_v2_slippage divides by (lines 15, 18, 21)
V2Divisors(reserve_in, reserve_out, amount_in) ==
    IF FEq(amount_in, Zero) THEN {}
    ELSE { FAdd(reserve_in, FMul(amount_in, L0_997)),
           reserve_in,
           FMul(FDiv(amount_in, reserve_in), reserve_out) }

\* lines 10-18 of compute_uniswap_v2_slippage: the actual and the ideal output
V2Amounts(reserve_in, reserve_out, amount_in) ==
    [amount_out |-> FDiv(FMul(FMul(amount_in, L0_997), reserve_out),
                         FAdd(reserve_in, FMul(amount_in, L0_997))),
     expected_amount_out |-> FMul(FDiv(amount_in, reserve_in), reserve_out)]

\* lines 26-38
compute_uniswap_v3_slippage(bld, liquidity, sqrt_price, amount_in) ==
    IF FEq(amount_in, Zero) \/ FEq(liquidity, Zero) THEN Zero
    ELSE LET amount_out == FDiv(FMul(FMul(amount_in, sqrt_price), liquidity),
                                FAdd(liquidity, amount_in))
             expected_amount_out == FMul(amount_in, sqrt_price)
             slippage == FMul(FDiv(FSub(expected_amount_out, amount_out),
                                   expected_amount_out), L100)
         IN  FMax(bld, slippage, Zero)

\* the divisors compute_uniswap_v3_slippage divides by (lines 33, 36)
V3Divisors(liquidity, sqrt_price, amount_in) ==
    IF FEq(amount_in, Zero) \/ FEq(liquidity, Zero) THEN {}
    ELSE { FAdd(liquidity, amount_in), FMul(amount_in, sqrt_price) }

\* lines 33-34 of compute_uniswap_v3_slippage: the actual and the ideal output
V3Amounts(liquidity, sqrt_price, amount_in) ==
    [amount_out |-> FDiv(FMul(FMul(amount_in, sqrt_price), liquidity),
                         FAdd(liquidity, amount_in)),
     expected_amount_out |-> FMul(amount_in, sqrt_price)]

\* mutant: the slippage is returned as computed, not clamped at 0
compute_curve_slippage_unclamped(bld, balance_in, balance_out, amount_in, amplification) ==
    IF FEq(amount_in, Zero) THEN Zero
    ELSE LET amount_in_with_fee == FMul(amount_in, L0_9996)
             constant_sum_out ==
                 FDiv(FMul(FAdd(balance_in, balance_out), amount_in_with_fee),
                      FAdd(balance_in, balance_out))
             constant_product_out ==
                 FDiv(FMul(amount_in_with_fee, balance_out),
                      FAdd(balance_in, amount_in_with_fee))
             amp_weight == FDiv(amplification, FAdd(amplification, L100))
             amount_out == FAdd(FMul(constant_sum_out, amp_weight),
                                FMul(constant_product_out, FSub(One, amp_weight)))
             expected_amount_out == FMul(amount_in, FDiv(balance_out, balance_in))
         IN  FMul(FDiv(FSub(expected_amount_out, amount_out),
                       expected_amount_out), L100)

\* lines 41-75
compute_curve_slippage(bld, balance_in, balance_out, amount_in, amplification) ==
    IF FEq(amount_in, Zero) THEN Zero
    ELSE LET amp_factor == amplification
             amount_in_with_fee == FMul(amount_in, L0_9996)
             total_liquidity == FAdd(balance_in, balance_out)
             constant_sum_out ==
                 FDiv(FMul(total_liquidity, amount_in_with_fee),
                      FAdd(balance_in, balance_out))
             constant_product_out ==
                 FDiv(FMul(amount_in_with_fee, balance_out),
                      FAdd(balance_in, amount_in_with_fee))
             amp_weight == FDiv(amp_factor, FAdd(amp_factor, L100))
             amount_out == FAdd(FMul(constant_sum_out, amp_weight),
                                FMul(constant_product_out, FSub(One, amp_weight)))
             expected_amount_out == FMul(amount_in, FDiv(balance_out, balance_in))
             slippage == FMul(FDiv(FSub(expected_amount_out, amount_out),
                                   expected_amount_out), L100)
         IN  FMax(bld, slippage, Zero)

\* the divisors compute_curve_slippage divides by (lines 64, 66, 69, 72, 73)
CurveDivisors(balance_in, balance_out, amount_in, amplification) ==
    IF FEq(amount_in, Zero) THEN {}
    ELSE { FAdd(balance_in, balance_out),
           FAdd(balance_in, FMul(amount_in, L0_9996)),
           FAdd(amplification, L100),
           balance_in,
           FMul(amount_in, FDiv(balance_out, balance_in)) }

\* lines 57-72 of compute_curve_slippage: the actual and the ideal output
CurveAmounts(balance_in, balance_out, amount_in, amplification) ==
    LET amount_in_with_fee == FMul(amount_in, L0_9996)
        constant_sum_out ==
            FDiv(FMul(FAdd(balance_in, balance_out), amount_in_with_fee),
                 FAdd(balance_in, balance_out))
        constant_product_out ==
            FDiv(FMul(amount_in_with_fee, balance_out),
                 FAdd(balance_in, amount_in_with_fee))
        amp_weight == FDiv(amplification, FAdd(amplification, L100))
    IN  [amount_out |-> FAdd(FMul(constant_sum_out, amp_weight),
                             FMul(constant_product_out, FSub(One, amp_weight))),
         expected_amount_out |-> FMul(amount_in, FDiv(balance_out, balance_in))]

\* lines 90-94 of compute_balancer_slippage: the actual and the ideal output
BalancerAmounts(bld, balance_in, balance_out, weight_in, weight_out, amount_in) ==
    [amount_out |-> FMul(balance_out,
                         FSub(One, FPow(bld, FDiv(balance_in, FAdd(balance_in, amount_in)),
                                         FDiv(weight_in, weight_out)))),
     expected_amount_out |-> FMul(amount_in, FDiv(balance_out, balance_in))]

\* lines 78-97
compute_balancer_slippage(bld, balance_in, balance_out, weight_in, weight_out, amount_in) ==
    IF FEq(amount_in, Zero) THEN Zero
    ELSE LET base == FDiv(balance_in, FAdd(balance_in, amount_in))
             exponent == FDiv(weight_in, weight_out)
             amount_out == FMul(balance_out, FSub(One, FPow(bld, base, exponent)))
             expected_amount_out == FMul(amount_in, FDiv(balance_out, balance_in))
             slippage == FMul(FDiv(FSub(expected_amount_out, amount_out),
                                   expected_amount_out), L100)
         IN  FMax(bld, slippage, Zero)

\* the divisors compute_balancer_slippage divides by (lines 90, 91, 94, 95)
BalancerDivisors(balance_in, balance_out, weight_in, weight_out, amount_in) ==
    IF FEq(amount_in, Zero) THEN {}
    ELSE { FAdd(balance_in, amount_in),
           weight_out,
           balance_in,
           FMul(amount_in, FDiv(balance_out, balance_in)) }

-----------------------------------------------------------------------------
(* math.rs: the opportunity pipeline's functions *)

\* a record r extended (or overwritten) with the fields of s
Ext(r, s) ==
    [x \in (DOMAIN r) \cup (DOMAIN s) |-> IF x \in DOMAIN s THEN s[x] ELSE r[x]]

calculate_pool_price(reserve_in, reserve_out) ==
    IF FLe(reserve_in, Zero) THEN Zero ELSE FDiv(reserve_out, reserve_in)

\* mutant: the price difference is compared as a fraction, not as a percentage
identify_arbitrage_opportunity_fraction(bld, pool1_reserve_in, pool1_reserve_out, pool2_reserve_in, pool2_reserve_out, min_price_diff_pct) ==
    LET price1 == calculate_pool_price(pool1_reserve_in, pool1_reserve_out)
        price2 == calculate_pool_price(pool2_reserve_in, pool2_reserve_out)
        price_diff == FMul(FDiv(FAbs(FSub(price1, price2)), FMin(bld, price1, price2)),
                           L100)
    IN  IF FLe(price1, Zero) \/ FLe(price2, Zero)
        THEN [has_opportunity |-> FALSE, price_diff |-> Zero, direction |-> 0]
        ELSE IF FGe(price_diff, FDiv(min_price_diff_pct, L100))
        THEN IF FLt(price1, price2)
             THEN [has_opportunity |-> TRUE, price_diff |-> price_diff, direction |-> 1]
             ELSE [has_opportunity |-> TRUE, price_diff |-> price_diff, direction |-> 2]
        ELSE [has_opportunity |-> FALSE, price_diff |-> price_diff, direction |-> 0]

identify_arbitrage_opportunity(bld, pool1_reserve_in, pool1_reserve_out, pool2_reserve_in, pool2_reserve_out, min_price_diff_pct) ==
    LET price1 == calculate_pool_price(pool1_reserve_in, pool1_reserve_out)
        price2 == calculate_pool_price(pool2_reserve_in, pool2_reserve_out)
        price_diff == FMul(FDiv(FAbs(FSub(price1, price2)), FMin(bld, price1, price2)),
                           L100)
    IN  IF FLe(price1, Zero) \/ FLe(price2, Zero)
        THEN [has_opportunity |-> FALSE, price_diff |-> Zero, direction |-> 0]
        ELSE IF FGe(price_diff, min_price_diff_pct)
        THEN IF FLt(price1, price2)
             THEN [has_opportunity |-> TRUE, price_diff |-> price_diff, direction |-> 1]
             ELSE [has_opportunity |-> TRUE, price_diff |-> price_diff, direction |-> 2]
        ELSE [has_opportunity |-> FALSE, price_diff |-> price_diff, direction |-> 0]

\* lines 437-441 of calculate_amount_out: the guard on the denominator and the
\* quotient
AmountOutOf(numerator, denominator) ==
    IF FLe(denominator, Zero) THEN Zero ELSE FDiv(numerator, denominator)

\* mutant: the guard on a non-positive input amount is missing
calculate_amount_out_unguarded(reserve_in, reserve_out, amount_in) ==
    AmountOutOf(FMul(FMul(reserve_out, amount_in), L997),
                FAdd(FMul(reserve_in, L1000), FMul(amount_in, L997)))

calculate_amount_out(reserve_in, reserve_out, amount_in) ==
    IF FLe(amount_in, Zero) THEN Zero
    ELSE AmountOutOf(FMul(FMul(reserve_out, amount_in), L997),
                     FAdd(FMul(reserve_in, L1000), FMul(amount_in, L997)))

estimate_arbitrage_profit(buy_reserve_in, buy_reserve_out, sell_reserve_in, sell_reserve_out, amount_in, gas_cost, flashloan_fee_pct) ==
    LET amount_out_buy  == calculate_amount_out(buy_reserve_in, buy_reserve_out,
                                                amount_in)
        amount_out_sell == calculate_amount_out(sell_reserve_in, sell_reserve_out,
                                                amount_out_buy)
        flashloan_repayment == FMul(amount_in, FAdd(One, flashloan_fee_pct))
    IN  FSub(FSub(amount_out_sell, flashloan_repayment), gas_cost)

\* the number of points of the scan: for i in 0..100
ScanPoints == 100

\* line 513: the amount of the scan's point i
ScanAmount(i, max_amount) == FMul(FDiv(I(i), L100), max_amount)

\* lines 528-531: the running best after a point of the given profit
ScanBest(amount, profit, best) ==
    IF FGt(profit, best.best_profit)
    THEN [best_size |-> amount, best_profit |-> profit]
    ELSE best

\* lines 514-531: the loop body at the given amount
ScanAt(amount, a, best) ==
    IF FLe(amount, Zero) THEN best
    ELSE ScanBest(amount,
                  estimate_arbitrage_profit(a.buy_reserve_in, a.buy_reserve_out,
                                            a.sell_reserve_in, a.sell_reserve_out,
                                            amount, a.gas_cost, a.flashloan_fee_pct),
                  best)

\* one iteration of the scan's loop body: point i against the running best
ScanPoint(i, a, max_amount, best) ==
    ScanAt(ScanAmount(i, max_amount), a, best)

\* the n iterations i, i+1, .. i+n-1 of the scan's loop, in this order.  The
\* range is split in two only to keep the evaluation shallow: ScanHigh runs
\* the second half from the best of the first, and its test, which no f64
\* satisfies, only has the first half evaluated before the second begins.
RECURSIVE ScanRange(_, _, _, _, _)
ScanHigh(i, n, a, max_amount, best) ==
    IF best.best_size.k = "" THEN best
    ELSE ScanRange(i, n, a, max_amount, best)

ScanRange(i, n, a, max_amount, best) ==
    IF n = 0 THEN best
    ELSE IF n = 1 THEN ScanPoint(i, a, max_amount, best)
    ELSE ScanHigh(i + n \div 2, n - n \div 2, a, max_amount,
                  ScanRange(i, n \div 2, a, max_amount, best))

\* mutant: the best profit starts at minus infinity, not at 0
Scan_from_neg_inf(bld, buy_reserve_in, buy_reserve_out, sell_reserve_in, sell_reserve_out, gas_cost, flashloan_fee_pct) ==
    ScanRange(0, ScanPoints,
              [buy_reserve_in |-> buy_reserve_in, buy_reserve_out |-> buy_reserve_out,
               sell_reserve_in |-> sell_reserve_in,
               sell_reserve_out |-> sell_reserve_out,
               gas_cost |-> gas_cost, flashloan_fee_pct |-> flashloan_fee_pct],
              FMin(bld, FMul(buy_reserve_in, L0_3), FMul(sell_reserve_in, L0_3)),
              [best_size |-> Zero, best_profit |-> NegInf])

\* lines 508-532 of optimize_trade_size_quadratic: best_size and best_profit
\* at the end of the loop
Scan(bld, buy_reserve_in, buy_reserve_out, sell_reserve_in, sell_reserve_out, gas_cost, flashloan_fee_pct) ==
    ScanRange(0, ScanPoints,
              [buy_reserve_in |-> buy_reserve_in, buy_reserve_out |-> buy_reserve_out,
               sell_reserve_in |-> sell_reserve_in,
               sell_reserve_out |-> sell_reserve_out,
               gas_cost |-> gas_cost, flashloan_fee_pct |-> flashloan_fee_pct],
              FMin(bld, FMul(buy_reserve_in, L0_3), FMul(sell_reserve_in, L0_3)),
              [best_size |-> Zero, best_profit |-> Zero])

optimize_trade_size_quadratic(bld, buy_reserve_in, buy_reserve_out, sell_reserve_in, sell_reserve_out, gas_cost, flashloan_fee_pct) ==
    Scan(bld, buy_reserve_in, buy_reserve_out, sell_reserve_in, sell_reserve_out,
         gas_cost, flashloan_fee_pct).best_size

\* the loop of calculate_twap from pair i on; a sample is <<timestamp, price>>
RECURSIVE TwapFrom(_, _, _, _)
TwapFrom(i, price_samples, weighted_sum, total_time) ==
    IF i > Len(price_samples) - 1
    THEN [weighted_sum |-> weighted_sum, total_time |-> total_time]
    ELSE LET t1 == price_samples[i][1]
             p1 == price_samples[i][2]
             t2 == price_samples[i + 1][1]
             time_diff == FSub(t2, t1)
         IN  IF FGt(time_diff, Zero)
             THEN TwapFrom(i + 1, price_samples,
                           FAdd(weighted_sum, FMul(p1, time_diff)),
                           FAdd(total_time, time_diff))
             ELSE TwapFrom(i + 1, price_samples, weighted_sum, total_time)

calculate_twap(price_samples) ==
    IF Len(price_samples) < 2 THEN Zero
    ELSE LET s == TwapFrom(1, price_samples, Zero, Zero)
         IN  IF FGt(s.total_time, Zero)
             THEN FDiv(s.weighted_sum, s.total_time)
             ELSE Zero

\* mutant: the guard on a non-positive reference is missing
validate_with_twap_unguarded(current_price, twap, max_deviation_pct) ==
    LET deviation == FMul(FDiv(FAbs(FSub(current_price, twap)), twap), L100)
    IN  FLe(deviation, max_deviation_pct)

validate_with_twap(current_price, twap, max_deviation_pct) ==
    IF FLe(twap, Zero) THEN FALSE
    ELSE LET deviation == FMul(FDiv(FAbs(FSub(current_price, twap)), twap), L100)
         IN  FLe(deviation, max_deviation_pct)


-----------------------------------------------------------------------------
(* math.rs: execute_arbitrage_flow, one step per gate of the pipeline *)

\* the longest price-sample sequence a call is given
MaxSamples == 2

\* (reserve_in, reserve_out) of the pools a call is given
FlowPools ==
    { <<I(10), I(20)>>, <<I(10), I(21)>>, <<I(0), I(20)>>, <<I(10), I(-20)>> }

\* (timestamp, price) samples
SamplePoints == { <<I(0), I(-3)>>, <<I(5), I(2)>>, <<I(10), I(2)>> }

\* sequences of at most n samples, timestamps not descending
RECURSIVE SamplesUpTo(_)
SamplesUpTo(n) ==
    IF n = 0 THEN { <<>> }
    ELSE LET shorter == SamplesUpTo(n - 1)
         IN  shorter \cup
             { Append(q, x) : q \in { r \in shorter : Len(r) = n - 1 },
                              x \in SamplePoints }

Ascending(q) ==
    \A j \in 1..(Len(q) - 1) : FLe(q[j][1], q[j + 1][1])

PriceSamples == { q \in SamplesUpTo(MaxSamples) : Ascending(q) }

\* the samples of pool 1 and of pool 2 in a call: one pool without samples,
\* or the same samples for both
SamplePairs ==
    { q \in PriceSamples \X PriceSamples :
        q[1] = << >> \/ q[2] = << >> \/ q[1] = q[2] }

Config(gas, diff, dev, thr) ==
    [gas_cost |-> gas, flashloan_fee_pct |-> Fl(9, -4),
     min_price_diff_pct |-> diff, max_twap_deviation_pct |-> dev,
     min_profit_threshold |-> thr]

FlowConfigs ==
    { Config(Zero, I(5), I(10), I(3)),
      Config(I(5), I(5), I(10), I(-10)),
      Config(Zero, I(50), I(10), I(3)),
      Config(Zero, Zero, I(5), I(50)),
      Config(Zero, I(5), I(10), I(-1)) }

NoRet == [none |-> TRUE]

OpportunityResult(should_execute, optimal_amount, expected_profit) ==
    [should_execute |-> should_execute, optimal_amount |-> optimal_amount,
     expected_profit |-> expected_profit]

InitFlow ==
    /\ build \in [equal_operands : EqualOperands]
    /\ op = "execute_arbitrage_flow"
    /\ pc = "detect"
    /\ \E p1 \in FlowPools, p2 \in FlowPools, s \in SamplePairs,
          c \in FlowConfigs :
          inp = [pool1_reserve_in |-> p1[1], pool1_reserve_out |-> p1[2],
                 pool2_reserve_in |-> p2[1], pool2_reserve_out |-> p2[2],
                 price_samples_pool1 |-> s[1], price_samples_pool2 |-> s[2],
                 config |-> c]
    /\ loc = [returned_at |-> "none"]
    /\ ret = NoRet

\* lines 598-628: identify the opportunity, fix the buy and the sell pool
Detect ==
    /\ op = "execute_arbitrage_flow" /\ pc = "detect"
    /\ LET d == identify_arbitrage_opportunity(build,
                    inp.pool1_reserve_in, inp.pool1_reserve_out,
                    inp.pool2_reserve_in, inp.pool2_reserve_out,
                    inp.config.min_price_diff_pct)
       IN  IF ~d.has_opportunity
           THEN /\ ret' = OpportunityResult(FALSE, Zero, Zero)
                /\ loc' = Ext(loc, [returned_at |-> "detect"])
                /\ pc' = "done"
           ELSE /\ loc' = Ext(loc,
                     IF d.direction = 1
                     THEN [direction |-> d.direction,
                           buy_res_in |-> inp.pool1_reserve_in,
                           buy_res_out |-> inp.pool1_reserve_out,
                           sell_res_in |-> inp.pool2_reserve_in,
                           sell_res_out |-> inp.pool2_reserve_out,
                           price_samples |-> inp.price_samples_pool1]
                     ELSE [direction |-> d.direction,
                           buy_res_in |-> inp.pool2_reserve_in,
                           buy_res_out |-> inp.pool2_reserve_out,
                           sell_res_in |-> inp.pool1_reserve_in,
                           sell_res_out |-> inp.pool1_reserve_out,
                           price_samples |-> inp.price_samples_pool2])
                /\ pc' = "validate"
                /\ UNCHANGED ret
    /\ UNCHANGED <<build, op, inp>>

\* lines 630-636: the TWAP check
Validate ==
    /\ op = "execute_arbitrage_flow" /\ pc = "validate"
    /\ LET current_price == calculate_pool_price(loc.buy_res_in, loc.buy_res_out)
           twap == calculate_twap(loc.price_samples)
       IN  /\ loc' = Ext(loc,
                 [current_price |-> current_price, twap |-> twap,
                  returned_at |->
                     IF validate_with_twap(current_price, twap,
                                           inp.config.max_twap_deviation_pct)
                     THEN "none" ELSE "validate"])
           /\ IF ~validate_with_twap(current_price, twap,
                                     inp.config.max_twap_deviation_pct)
              THEN ret' = OpportunityResult(FALSE, Zero, Zero) /\ pc' = "done"
              ELSE pc' = "optimize" /\ UNCHANGED ret
    /\ UNCHANGED <<build, op, inp>>

\* lines 639-650: the locals once the scan has ended with the given best_size
\* and best_profit
Sized(scan) ==
    [best_size |-> scan.best_size, best_profit |-> scan.best_profit,
     optimal_amount |-> scan.best_size,
     returned_at |-> IF FLe(scan.best_size, Zero) THEN "optimize" ELSE "none"]

\* lines 638-650: the size scan; best_size and best_profit are the locals of
\* optimize_trade_size_quadratic at its return
Optimize ==
    /\ op = "execute_arbitrage_flow" /\ pc = "optimize"
    /\ loc' = Ext(loc, Sized(Scan(build, loc.buy_res_in, loc.buy_res_out,
                                  loc.sell_res_in, loc.sell_res_out,
                                  inp.config.gas_cost,
                                  inp.config.flashloan_fee_pct)))
    /\ IF FLe(loc'.optimal_amount, Zero)
       THEN ret' = OpportunityResult(FALSE, Zero, Zero) /\ pc' = "done"
       ELSE pc' = "estimate" /\ UNCHANGED ret
    /\ UNCHANGED <<build, op, inp>>

\* lines 652-661: the profit at the chosen size
Estimate ==
    /\ op = "execute_arbitrage_flow" /\ pc = "estimate"
    /\ loc' = Ext(loc,
          [expected_profit |-> estimate_arbitrage_profit(
                                   loc.buy_res_in, loc.buy_res_out,
                                   loc.sell_res_in, loc.sell_res_out,
                                   loc.optimal_amount,
                                   inp.config.gas_cost, inp.config.flashloan_fee_pct)])
    /\ pc' = "gate"
    /\ UNCHANGED <<build, op, inp, ret>>

\* mutant: the gate compares the size, not the profit, with the threshold
Gate_on_size ==
    /\ op = "execute_arbitrage_flow" /\ pc = "gate"
    /\ LET should_execute == FGe(loc.optimal_amount, inp.config.min_profit_threshold)
       IN  ret' = OpportunityResult(should_execute, loc.optimal_amount,
                                    loc.expected_profit)
    /\ loc' = Ext(loc, [returned_at |-> "gate"])
    /\ pc' = "done"
    /\ UNCHANGED <<build, op, inp>>

\* lines 663-666: the profit gate and the returned triple
Gate ==
    /\ op = "execute_arbitrage_flow" /\ pc = "gate"
    /\ LET should_execute == FGe(loc.expected_profit, inp.config.min_profit_threshold)
       IN  ret' = OpportunityResult(should_execute, loc.optimal_amount,
                                    loc.expected_profit)
    /\ loc' = Ext(loc, [returned_at |-> "gate"])
    /\ pc' = "done"
    /\ UNCHANGED <<build, op, inp>>

NextFlow == Detect \/ Validate \/ Optimize \/ Estimate \/ Gate

SpecFlow == InitFlow /\ [][NextFlow]_vars


-----------------------------------------------------------------------------
(* Properties of execute_arbitrage_flow *)

Rejected == OpportunityResult(FALSE, Zero, Zero)

FlowDone == op = "execute_arbitrage_flow" /\ pc = "done"

\* a pool's spot price as the specification states it: reserve_out / reserve_in
SpotPrice(reserve_in, reserve_out) == FDiv(reserve_out, reserve_in)

Spot1 == SpotPrice(inp.pool1_reserve_in, inp.pool1_reserve_out)
Spot2 == SpotPrice(inp.pool2_reserve_in, inp.pool2_reserve_out)

\* |p1 - p2| / min(p1, p2) * 100
RelativeDiff(bld, p1, p2) == FMul(FDiv(FAbs(FSub(p1, p2)), FMin(bld, p1, p2)), L100)

\* C1: a call in which a pool's spot price is non-positive, or in which the
\* relative price difference is below config.min_price_diff_pct, returns
\* exactly (false, 0, 0), whatever the samples and the other config fields.
C1_NoGapRejected ==
    FlowDone =>
        ( ( \/ FLe(Spot1, Zero)
            \/ FLe(Spot2, Zero)
            \/ FLt(RelativeDiff(build, Spot1, Spot2), inp.config.min_price_diff_pct) )
          => ret = Rejected )

\* C1 happens: both prices positive, a gap below the minimum, two samples at
\* hand, and the call has returned the rejection
C1_Witness ==
    /\ FlowDone
    /\ FGt(Spot1, Zero) /\ FGt(Spot2, Zero)
    /\ FGt(RelativeDiff(build, Spot1, Spot2), Zero)
    /\ FLt(RelativeDiff(build, Spot1, Spot2), inp.config.min_price_diff_pct)
    /\ Len(inp.price_samples_pool1) >= 2 /\ Len(inp.price_samples_pool2) >= 2
    /\ ret = Rejected

DetectPassed == op = "execute_arbitrage_flow" /\ "direction" \in DOMAIN loc

\* the buy pool and its samples, as the direction names them
BuySamples ==
    IF loc.direction = 1 THEN inp.price_samples_pool1 ELSE inp.price_samples_pool2
BuySpot == IF loc.direction = 1 THEN Spot1 ELSE Spot2
BuyTwap == calculate_twap(BuySamples)

\* |spot - twap| / twap * 100
Deviation(spot, twap) == FMul(FDiv(FAbs(FSub(spot, twap)), twap), L100)

TwapAccepts(spot, twap, max_deviation_pct) ==
    FGt(twap, Zero) /\ FLe(Deviation(spot, twap), max_deviation_pct)

\* C2: once the detect gate has passed, the TWAP is taken over the buy pool's
\* samples (pool 1's for direction 1, pool 2's for direction 2); the call
\* returns (false, 0, 0) whenever that TWAP is non-positive or the spot price
\* deviates from it by more than max_twap_deviation_pct, and validate_with_twap
\* is true exactly when twap > 0 and the deviation is within the bound.
C2_TwapFailsClosed ==
    (DetectPassed /\ pc # "validate") =>
        /\ loc.twap = BuyTwap
        /\ loc.current_price = BuySpot
        /\ validate_with_twap(BuySpot, BuyTwap, inp.config.max_twap_deviation_pct)
              <=> TwapAccepts(BuySpot, BuyTwap, inp.config.max_twap_deviation_pct)
        /\ ~TwapAccepts(BuySpot, BuyTwap, inp.config.max_twap_deviation_pct)
              => (pc = "done" /\ ret = Rejected /\ loc.returned_at = "validate")

\* C2 happens: pool 2 is the buy pool, its TWAP is positive, the spot price is
\* off by more than the bound, and the call was rejected at the TWAP check
C2_Witness ==
    /\ FlowDone /\ DetectPassed
    /\ loc.direction = 2
    /\ FGt(BuyTwap, Zero)
    /\ FGt(Deviation(BuySpot, BuyTwap), inp.config.max_twap_deviation_pct)
    /\ loc.returned_at = "validate"
    /\ ret = Rejected

\* the size the scan computes for the buy and the sell pool of the call
ComputedSize ==
    optimize_trade_size_quadratic(build, loc.buy_res_in, loc.buy_res_out,
                                  loc.sell_res_in, loc.sell_res_out,
                                  inp.config.gas_cost, inp.config.flashloan_fee_pct)

\* the profit the estimate computes at the given size
ComputedProfit(amount) ==
    estimate_arbitrage_profit(loc.buy_res_in, loc.buy_res_out,
                              loc.sell_res_in, loc.sell_res_out,
                              amount, inp.config.gas_cost,
                              inp.config.flashloan_fee_pct)

\* C3: in a run that passes the detect, validate and optimize gates,
\* should_execute is true exactly when expected_profit >= min_profit_threshold,
\* and the computed size and profit are returned as computed, also when
\* should_execute is false; in every run should_execute implies
\* expected_profit >= min_profit_threshold.
C3_ProfitGate ==
    FlowDone =>
        /\ loc.returned_at = "gate" =>
              /\ ret.should_execute
                    <=> FGe(ret.expected_profit, inp.config.min_profit_threshold)
              /\ ret.optimal_amount = loc.optimal_amount
              /\ ret.optimal_amount = ComputedSize
              /\ ret.expected_profit = loc.expected_profit
              /\ ret.expected_profit = ComputedProfit(ret.optimal_amount)
        /\ ret.should_execute
              => FGe(ret.expected_profit, inp.config.min_profit_threshold)

\* C3 happens: all gates passed, a positive size and profit were computed, the
\* profit is below the threshold, and they are returned with should_execute false
C3_Witness ==
    /\ FlowDone
    /\ loc.returned_at = "gate"
    /\ ~ret.should_execute
    /\ FGt(ret.optimal_amount, Zero)
    /\ FGt(ret.expected_profit, Zero)
    /\ FLt(ret.expected_profit, inp.config.min_profit_threshold)

\* the other side of C3's gate: a run that ends with should_execute true
C3_Executes == FlowDone /\ ret.should_execute


\* what identify_arbitrage_opportunity returns for the pools of the call
Identified ==
    identify_arbitrage_opportunity(build, inp.pool1_reserve_in, inp.pool1_reserve_out,
                                   inp.pool2_reserve_in, inp.pool2_reserve_out,
                                   inp.config.min_price_diff_pct)

\* the prices identify_arbitrage_opportunity compares
Price1 == calculate_pool_price(inp.pool1_reserve_in, inp.pool1_reserve_out)
Price2 == calculate_pool_price(inp.pool2_reserve_in, inp.pool2_reserve_out)

DetectDone == op = "execute_arbitrage_flow" /\ pc # "detect"

\* C13: identify_arbitrage_opportunity reports an opportunity exactly when
\* both prices are positive and their relative difference is at least
\* min_price_diff_pct; the direction is 0 exactly when it reports none;
\* direction 1 means pool 1 has the lower price and direction 2 means pool 2
\* has the lower price, so the buy pool of execute_arbitrage_flow has the
\* lower price of the two.
C13_DirectionBuysCheaper ==
    DetectDone =>
        /\ Identified.has_opportunity <=>
              ( /\ FGt(Price1, Zero) /\ FGt(Price2, Zero)
                /\ FGe(RelativeDiff(build, Price1, Price2), inp.config.min_price_diff_pct) )
        /\ Identified.direction = 0 <=> ~Identified.has_opportunity
        /\ Identified.direction = 1 => FLt(Price1, Price2)
        /\ Identified.direction = 2 => FLt(Price2, Price1)
        /\ DetectPassed <=> Identified.has_opportunity
        /\ DetectPassed =>
              FLt(calculate_pool_price(loc.buy_res_in, loc.buy_res_out),
                  calculate_pool_price(loc.sell_res_in, loc.sell_res_out))

\* C18: execute_arbitrage_flow never recommends a non-positive trade:
\* should_execute = true implies optimal_amount > 0 and expected_profit > 0,
\* whatever the sign of min_profit_threshold, because the profit estimated
\* again at the gate is the positive best profit of the scan; and a result of
\* an early exit has optimal_amount = 0 and expected_profit = 0.
C18_NeverRecommendsNonPositive ==
    FlowDone =>
        /\ ret.should_execute =>
              FGt(ret.optimal_amount, Zero) /\ FGt(ret.expected_profit, Zero)
        /\ loc.returned_at = "gate" =>
              /\ ret.expected_profit = loc.best_profit
              /\ FGt(ret.expected_profit, Zero)
        /\ loc.returned_at \in { "detect", "validate", "optimize" } =>
              /\ ~ret.should_execute
              /\ FEq(ret.optimal_amount, Zero) /\ FEq(ret.expected_profit, Zero)

\* C18 happens: a trade is recommended under a threshold that is not positive
C18_Witness ==
    /\ FlowDone
    /\ FLe(inp.config.min_profit_threshold, Zero)
    /\ ret.should_execute
    /\ FGt(ret.optimal_amount, Zero) /\ FGt(ret.expected_profit, Zero)

\* C18's early exit happens: the scan found no profitable size
C18_WitnessNoSize ==
    /\ FlowDone
    /\ loc.returned_at = "optimize"
    /\ ret = Rejected

-----------------------------------------------------------------------------
(* math.rs: the size optimizers, one step per loop iteration *)

\* let iterations = 50
iterations == 50
\* for _ in 0..100, calculate_flashloan_amount
FlashloanIterations == 100
\* for _ in 0..100, calculate_flashloan_amount_v3
FlashloanV3Iterations == 100

\* lines 130-135: the profit of optimal_trade_size at size mid
TradeProfit(reserve_in, reserve_out, gas_cost, mid) ==
    LET amount_in_with_fee == FMul(mid, L0_997)
        numerator   == FMul(amount_in_with_fee, reserve_out)
        denominator == FAdd(reserve_in, amount_in_with_fee)
        amount_out  == FDiv(numerator, denominator)
    IN  FSub(FSub(amount_out, mid), gas_cost)

\* lines 137-142: the bracket and the best size after a midpoint
TradeStep(l, mid, profit, min_profit) ==
    IF FGe(profit, min_profit)
    THEN [l EXCEPT !.best_size = mid, !.low = mid]
    ELSE [l EXCEPT !.high = mid]

\* lines 127-142: the locals after the iteration that evaluates mid; evals
\* records the midpoints evaluated and their profits
TradeEvaluated(l, mid, profit, min_profit) ==
    [TradeStep(l, mid, profit, min_profit)
        EXCEPT !.iter = l.iter + 1,
               !.evals = Append(l.evals, [mid |-> mid, profit |-> profit])]

TradeAt(l, a, mid) ==
    TradeEvaluated(l, mid,
                   TradeProfit(a.reserve_in, a.reserve_out, a.gas_cost, mid),
                   a.min_profit)

\* lines 182-193: the profit of calculate_flashloan_amount at amount mid
FlashloanProfit(a, mid) ==
    LET amount_in_with_fee == FMul(mid, L0_997)
        amount_out_buy  == FDiv(FMul(amount_in_with_fee, a.reserve_out_buy),
                                FAdd(a.reserve_in_buy, amount_in_with_fee))
        amount_in_sell  == FMul(amount_out_buy, L0_997)
        amount_out_sell == FDiv(FMul(amount_in_sell, a.reserve_out_sell),
                                FAdd(a.reserve_in_sell, amount_in_sell))
        flashloan_repayment == FMul(mid, FAdd(One, a.flashloan_fee))
    IN  FSub(FSub(amount_out_sell, flashloan_repayment), a.gas_cost)

\* mutant: the best amount is overwritten by every profitable midpoint
FlashloanStep_last(l, mid, profit) ==
    LET l1 == IF FGt(profit, Zero)
              THEN [l EXCEPT !.best_profit = profit, !.best_amount = mid]
              ELSE l
    IN  IF FGt(profit, Zero) THEN [l1 EXCEPT !.low = mid]
        ELSE [l1 EXCEPT !.high = mid]

\* lines 195-204: the best amount and the bracket after a midpoint
FlashloanStep(l, mid, profit) ==
    LET l1 == IF FGt(profit, l.best_profit)
              THEN [l EXCEPT !.best_profit = profit, !.best_amount = mid]
              ELSE l
    IN  IF FGt(profit, Zero) THEN [l1 EXCEPT !.low = mid]
        ELSE [l1 EXCEPT !.high = mid]

\* lines 179-204: the locals after the iteration that evaluates mid
FlashloanEvaluated(l, mid, profit) ==
    [FlashloanStep(l, mid, profit)
        EXCEPT !.iter = l.iter + 1,
               !.evals = Append(l.evals, [mid |-> mid, profit |-> profit])]

FlashloanAt(l, a, mid) == FlashloanEvaluated(l, mid, FlashloanProfit(a, mid))

\* lines 338-343: the profit of calculate_flashloan_amount_v3 at amount mid
FlashloanV3Profit(a, mid) ==
    LET amount_out_buy  == FDiv(FMul(FMul(mid, a.sqrt_price_buy), a.liquidity),
                                FAdd(a.liquidity, mid))
        amount_out_sell == FDiv(FMul(FMul(amount_out_buy, a.sqrt_price_sell),
                                     a.liquidity),
                                FAdd(a.liquidity, amount_out_buy))
        flashloan_repayment == FMul(mid, FAdd(One, a.flashloan_fee))
    IN  FSub(FSub(amount_out_sell, flashloan_repayment), a.gas_cost)

\* lines 345-354: the best amount and the bracket after a midpoint
FlashloanV3Step(l, mid, profit) ==
    LET l1 == IF FGt(profit, l.best_profit)
              THEN [l EXCEPT !.best_profit = profit, !.best_amount = mid]
              ELSE l
    IN  IF FGt(profit, Zero) THEN [l1 EXCEPT !.low = mid]
        ELSE [l1 EXCEPT !.high = mid]

\* lines 335-354: the locals after the iteration that evaluates mid
FlashloanV3Evaluated(l, mid, profit) ==
    [FlashloanV3Step(l, mid, profit)
        EXCEPT !.iter = l.iter + 1,
               !.evals = Append(l.evals, [mid |-> mid, profit |-> profit])]

FlashloanV3At(l, a, mid) == FlashloanV3Evaluated(l, mid, FlashloanV3Profit(a, mid))

\* lines 514-516: the locals after an iteration that skips its point; points
\* records the amounts of the iterations made
QuadraticSkipped(l, amount) ==
    [l EXCEPT !.iter = l.iter + 1, !.points = Append(l.points, amount)]

\* lines 528-531: the locals after an iteration that evaluates its point;
\* evals records the amounts evaluated and their profits
QuadraticBest(l, amount, profit, best) ==
    [l EXCEPT !.best_size = best.best_size,
              !.best_profit = best.best_profit,
              !.iter = l.iter + 1,
              !.points = Append(l.points, amount),
              !.evals = Append(l.evals, [amount |-> amount, profit |-> profit])]

QuadraticEvaluated(l, amount, profit) ==
    QuadraticBest(l, amount, profit, ScanBest(amount, profit, l))

\* lines 513-531: the loop body at the given amount
QuadraticAt(l, a, amount) ==
    IF FLe(amount, Zero) THEN QuadraticSkipped(l, amount)
    ELSE QuadraticEvaluated(l, amount,
             estimate_arbitrage_profit(a.buy_reserve_in, a.buy_reserve_out,
                                       a.sell_reserve_in, a.sell_reserve_out,
                                       amount, a.gas_cost, a.flashloan_fee_pct))

\* the arguments the optimizers are called with
\* 4e12 is a reserve whose bracket is still wider than 1e-4 after 50 halvings
TradeReservesIn ==
    { I(-10), Zero, I(10), I(1000), FMul(I(2000000), I(2000000)) }
TradeReservesOut == { I(-20), Zero, I(9), I(20), I(2000) }
GasCosts         == { Zero, I(1) }
MinProfits       == { I(-2), Zero, I(1) }
OptPools ==
    { <<I(10), I(20)>>, <<I(10), I(8)>>, <<I(1000), I(2000)>>,
      <<I(0), I(20)>>, <<I(10), I(-20)>>, <<I(-10), I(20)>> }
ScanPools ==
    { <<I(10), I(20)>>, <<I(10), I(8)>>, <<I(1000), I(2000)>>,
      <<I(0), I(20)>>, <<I(10), I(-20)>> }
Liquidities == { I(-100), Zero, I(100) }
SqrtPrices  == { I(-1), Zero, I(1), Fl(15, -1) }

InitOpt ==
    /\ build \in [equal_operands : EqualOperands]
    /\ pc = "entry"
    /\ loc = [iter |-> 0]
    /\ ret = NoRet
    /\ \/ /\ op = "optimal_trade_size"
          /\ \E ri \in TradeReservesIn, ro \in TradeReservesOut,
                g \in GasCosts, mp \in MinProfits :
                inp = [reserve_in |-> ri, reserve_out |-> ro,
                       gas_cost |-> g, min_profit |-> mp]
       \/ /\ op = "calculate_flashloan_amount"
          /\ \E b \in OptPools, sl \in OptPools, g \in GasCosts :
                inp = [reserve_in_buy |-> b[1], reserve_out_buy |-> b[2],
                       reserve_in_sell |-> sl[1], reserve_out_sell |-> sl[2],
                       flashloan_fee |-> Fl(9, -4), gas_cost |-> g]
       \/ /\ op = "calculate_flashloan_amount_v3"
          /\ \E lq \in Liquidities, sb \in SqrtPrices, ss \in SqrtPrices,
                g \in GasCosts :
                inp = [liquidity |-> lq, sqrt_price_buy |-> sb,
                       sqrt_price_sell |-> ss,
                       flashloan_fee |-> Fl(9, -4), gas_cost |-> g]
       \/ /\ op = "optimize_trade_size_quadratic"
          /\ \E b \in ScanPools, sl \in ScanPools, g \in GasCosts :
                inp = [buy_reserve_in |-> b[1], buy_reserve_out |-> b[2],
                       sell_reserve_in |-> sl[1], sell_reserve_out |-> sl[2],
                       gas_cost |-> g, flashloan_fee_pct |-> Fl(9, -4)]

\* mutant: the bracket starts at the whole reserve, not at 10% of it
TradeEnter_whole_reserve ==
    /\ op = "optimal_trade_size" /\ pc = "entry"
    /\ IF FLe(inp.reserve_in, Zero) \/ FLe(inp.reserve_out, Zero)
       THEN /\ ret' = Zero
            /\ pc' = "done"
            /\ loc' = Ext(loc, [evals |-> <<>>])
       ELSE /\ loc' = [low |-> Zero, high |-> inp.reserve_in,
                       best_size |-> Zero, iter |-> 0, evals |-> <<>>]
            /\ pc' = "loop"
            /\ UNCHANGED ret
    /\ UNCHANGED <<build, op, inp>>

\* lines 116-124: the guard and the initial bracket of optimal_trade_size
TradeEnter ==
    /\ op = "optimal_trade_size" /\ pc = "entry"
    /\ IF FLe(inp.reserve_in, Zero) \/ FLe(inp.reserve_out, Zero)
       THEN /\ ret' = Zero
            /\ pc' = "done"
            /\ loc' = Ext(loc, [evals |-> <<>>])
       ELSE /\ loc' = [low |-> Zero, high |-> FMul(inp.reserve_in, L0_1),
                       best_size |-> Zero, iter |-> 0, evals |-> <<>>]
            /\ pc' = "loop"
            /\ UNCHANGED ret
    /\ UNCHANGED <<build, op, inp>>

\* mutant: the convergence check is missing, the loop runs to its cap
TradeIterate_no_break ==
    /\ op = "optimal_trade_size" /\ pc = "loop"
    /\ loc.iter < iterations
    /\ loc' = TradeAt(loc, inp, FDiv(FAdd(loc.low, loc.high), L2))
    /\ pc' = IF loc'.iter >= iterations THEN "exit" ELSE "loop"
    /\ UNCHANGED <<build, op, inp, ret>>

\* lines 126-148: one iteration of the bisection
TradeIterate ==
    /\ op = "optimal_trade_size" /\ pc = "loop"
    /\ loc.iter < iterations
    /\ loc' = TradeAt(loc, inp, FDiv(FAdd(loc.low, loc.high), L2))
    /\ pc' = IF FLt(FSub(loc'.high, loc'.low), L0_0001)
                \/ loc'.iter >= iterations
             THEN "exit" ELSE "loop"
    /\ UNCHANGED <<build, op, inp, ret>>

\* line 150
TradeReturn ==
    /\ op = "optimal_trade_size" /\ pc = "exit"
    /\ ret' = loc.best_size
    /\ pc' = "done"
    /\ UNCHANGED <<build, op, inp, loc>>

\* lines 163-176: the guard and the initial bracket of calculate_flashloan_amount
FlashloanEnter ==
    /\ op = "calculate_flashloan_amount" /\ pc = "entry"
    /\ IF \/ FLe(inp.reserve_in_buy, Zero) \/ FLe(inp.reserve_out_buy, Zero)
          \/ FLe(inp.reserve_in_sell, Zero) \/ FLe(inp.reserve_out_sell, Zero)
       THEN /\ ret' = Zero
            /\ pc' = "done"
            /\ loc' = Ext(loc, [evals |-> <<>>])
       ELSE /\ LET max_flashloan == FMin(build, FMul(inp.reserve_in_buy, L0_3),
                                         FMul(inp.reserve_in_sell, L0_3))
               IN  loc' = [low |-> Zero, high |-> max_flashloan,
                           best_amount |-> Zero, best_profit |-> Zero,
                           iter |-> 0, evals |-> <<>>]
            /\ pc' = "loop"
            /\ UNCHANGED ret
    /\ UNCHANGED <<build, op, inp>>

\* lines 178-209: one iteration of the bisection
FlashloanIterate ==
    /\ op = "calculate_flashloan_amount" /\ pc = "loop"
    /\ loc.iter < FlashloanIterations
    /\ loc' = FlashloanAt(loc, inp, FDiv(FAdd(loc.low, loc.high), L2))
    /\ pc' = IF FLt(FSub(loc'.high, loc'.low), L0_01)
                \/ loc'.iter >= FlashloanIterations
             THEN "exit" ELSE "loop"
    /\ UNCHANGED <<build, op, inp, ret>>

\* lines 211-215
FlashloanReturn ==
    /\ op = "calculate_flashloan_amount" /\ pc = "exit"
    /\ ret' = IF FGt(loc.best_profit, Zero) THEN loc.best_amount ELSE Zero
    /\ pc' = "done"
    /\ UNCHANGED <<build, op, inp, loc>>

\* lines 323-332: the guard and the initial bracket of calculate_flashloan_amount_v3
FlashloanV3Enter ==
    /\ op = "calculate_flashloan_amount_v3" /\ pc = "entry"
    /\ IF \/ FLe(inp.liquidity, Zero) \/ FLe(inp.sqrt_price_buy, Zero)
          \/ FLe(inp.sqrt_price_sell, Zero)
       THEN /\ ret' = Zero
            /\ pc' = "done"
            /\ loc' = Ext(loc, [evals |-> <<>>])
       ELSE /\ LET max_amount == FMul(inp.liquidity, L0_3)
               IN  loc' = [low |-> Zero, high |-> max_amount,
                           best_amount |-> Zero, best_profit |-> Zero,
                           iter |-> 0, evals |-> <<>>]
            /\ pc' = "loop"
            /\ UNCHANGED ret
    /\ UNCHANGED <<build, op, inp>>

\* lines 334-359: one iteration of the bisection
FlashloanV3Iterate ==
    /\ op = "calculate_flashloan_amount_v3" /\ pc = "loop"
    /\ loc.iter < FlashloanV3Iterations
    /\ loc' = FlashloanV3At(loc, inp, FDiv(FAdd(loc.low, loc.high), L2))
    /\ pc' = IF FLt(FSub(loc'.high, loc'.low), L0_01)
                \/ loc'.iter >= FlashloanV3Iterations
             THEN "exit" ELSE "loop"
    /\ UNCHANGED <<build, op, inp, ret>>

\* lines 361-365
FlashloanV3Return ==
    /\ op = "calculate_flashloan_amount_v3" /\ pc = "exit"
    /\ ret' = IF FGt(loc.best_profit, Zero) THEN loc.best_amount ELSE Zero
    /\ pc' = "done"
    /\ UNCHANGED <<build, op, inp, loc>>

\* lines 508-510: the range and the initial best of optimize_trade_size_quadratic
QuadraticEnter ==
    /\ op = "optimize_trade_size_quadratic" /\ pc = "entry"
    /\ loc' = [max_amount |-> FMin(build, FMul(inp.buy_reserve_in, L0_3),
                                   FMul(inp.sell_reserve_in, L0_3)),
               best_size |-> Zero, best_profit |-> Zero,
               iter |-> 0, points |-> <<>>, evals |-> <<>>]
    /\ pc' = "loop"
    /\ UNCHANGED <<build, op, inp, ret>>

\* lines 512-532: the iteration i = loc.iter of the scan
QuadraticIterate ==
    /\ op = "optimize_trade_size_quadratic" /\ pc = "loop"
    /\ loc.iter < ScanPoints
    /\ loc' = QuadraticAt(loc, inp, ScanAmount(loc.iter, loc.max_amount))
    /\ pc' = IF loc'.iter >= ScanPoints THEN "exit" ELSE "loop"
    /\ UNCHANGED <<build, op, inp, ret>>

\* line 534
QuadraticReturn ==
    /\ op = "optimize_trade_size_quadratic" /\ pc = "exit"
    /\ ret' = loc.best_size
    /\ pc' = "done"
    /\ UNCHANGED <<build, op, inp, loc>>

NextOpt ==
    \/ TradeEnter \/ TradeIterate \/ TradeReturn
    \/ FlashloanEnter \/ FlashloanIterate \/ FlashloanReturn
    \/ FlashloanV3Enter \/ FlashloanV3Iterate \/ FlashloanV3Return
    \/ QuadraticEnter \/ QuadraticIterate \/ QuadraticReturn

SpecOpt == InitOpt /\ [][NextOpt]_vars


-----------------------------------------------------------------------------
(* Properties of the size optimizers *)

OptDone(f) == op = f /\ pc = "done"

\* sizes spread over [0, 10% of reserve_in]
TradeGrid == { FMul(FDiv(I(j), I(20)), FMul(inp.reserve_in, L0_1)) : j \in 0..20 }

\* C4: for positive reserves, gas_cost >= 0 and any min_profit,
\* optimal_trade_size returns 0 or a size whose profit
\* output(s) - s - gas_cost is >= 0, and returns 0 when no size in
\* [0, 10% of reserve_in] has a positive profit.
C4_NeverNegativeProfit ==
    ( /\ OptDone("optimal_trade_size")
      /\ FGt(inp.reserve_in, Zero) /\ FGt(inp.reserve_out, Zero)
      /\ FGe(inp.gas_cost, Zero) )
    => /\ \/ FEq(ret, Zero)
          \/ FGe(TradeProfit(inp.reserve_in, inp.reserve_out, inp.gas_cost, ret), Zero)
       /\ ( \A x \in TradeGrid :
               ~FGt(TradeProfit(inp.reserve_in, inp.reserve_out, inp.gas_cost, x), Zero) )
          => FEq(ret, Zero)

\* the evaluated midpoints with a positive profit
Profitable == { j \in 1..Len(loc.evals) : FGt(loc.evals[j].profit, Zero) }

FlashloanDone ==
    OptDone("calculate_flashloan_amount") \/ OptDone("calculate_flashloan_amount_v3")

\* the profit the function computes at an amount
ProfitAt(x) ==
    IF op = "calculate_flashloan_amount" THEN FlashloanProfit(inp, x)
    ELSE FlashloanV3Profit(inp, x)

\* C5: calculate_flashloan_amount and calculate_flashloan_amount_v3 return 0
\* exactly when no evaluated midpoint had a positive profit, and otherwise an
\* evaluated midpoint whose profit is positive and the greatest of all the
\* midpoints evaluated.
C5_BestProfitableMidpoint ==
    FlashloanDone =>
        /\ \A j \in 1..Len(loc.evals) :
              loc.evals[j].profit = ProfitAt(loc.evals[j].mid)
        /\ FEq(ret, Zero) <=> (Profitable = {})
        /\ Profitable # {} =>
              \E j \in Profitable :
                  /\ ret = loc.evals[j].mid
                  /\ \A i \in 1..Len(loc.evals) :
                        FLe(loc.evals[i].profit, loc.evals[j].profit)

\* C5 happens: several midpoints were profitable, and the one returned is not
\* the last profitable one evaluated
C5_Witness ==
    /\ OptDone("calculate_flashloan_amount")
    /\ Cardinality(Profitable) >= 2
    /\ \E i \in Profitable, j \in Profitable :
          /\ i < j
          /\ ret = loc.evals[i].mid
          /\ FLt(loc.evals[j].profit, loc.evals[i].profit)

\* the same for the V3 variant
C5_WitnessV3 ==
    /\ OptDone("calculate_flashloan_amount_v3")
    /\ Cardinality(Profitable) >= 2
    /\ FGt(ret, Zero)

\* some reserve, liquidity or sqrt-price argument of the call is non-positive
NonPositiveArgument ==
    IF op = "optimal_trade_size"
    THEN FLe(inp.reserve_in, Zero) \/ FLe(inp.reserve_out, Zero)
    ELSE IF op = "calculate_flashloan_amount"
    THEN \/ FLe(inp.reserve_in_buy, Zero) \/ FLe(inp.reserve_out_buy, Zero)
         \/ FLe(inp.reserve_in_sell, Zero) \/ FLe(inp.reserve_out_sell, Zero)
    ELSE IF op = "calculate_flashloan_amount_v3"
    THEN \/ FLe(inp.liquidity, Zero) \/ FLe(inp.sqrt_price_buy, Zero)
         \/ FLe(inp.sqrt_price_sell, Zero)
    ELSE \/ FLe(inp.buy_reserve_in, Zero) \/ FLe(inp.buy_reserve_out, Zero)
         \/ FLe(inp.sell_reserve_in, Zero) \/ FLe(inp.sell_reserve_out, Zero)

Optimizers ==
    { "optimal_trade_size", "calculate_flashloan_amount",
      "calculate_flashloan_amount_v3", "optimize_trade_size_quadratic" }

\* C6: every size optimizer returns 0 when one of its reserve, liquidity or
\* sqrt-price arguments is non-positive (gas_cost >= 0, fee >= 0), also
\* optimize_trade_size_quadratic, which has no guard of its own.
C6_NonPositiveGivesZero ==
    ( /\ op \in Optimizers /\ pc = "done"
      /\ FGe(inp.gas_cost, Zero)
      /\ NonPositiveArgument )
    => FEq(ret, Zero)

\* C6 happens: the scan ran over a positive range (both input reserves
\* positive) with both output reserves negative, and returned 0
C6_Witness ==
    /\ OptDone("optimize_trade_size_quadratic")
    /\ FGt(inp.buy_reserve_in, Zero) /\ FGt(inp.sell_reserve_in, Zero)
    /\ FLt(inp.buy_reserve_out, Zero) /\ FLt(inp.sell_reserve_out, Zero)
    /\ Len(loc.evals) = 99
    /\ FEq(ret, Zero)


Bisections ==
    { "optimal_trade_size", "calculate_flashloan_amount",
      "calculate_flashloan_amount_v3" }

\* the iteration cap of the optimizer running
IterationCap ==
    IF op = "optimal_trade_size" THEN 50
    ELSE IF op \in { "calculate_flashloan_amount", "calculate_flashloan_amount_v3" }
    THEN 100
    ELSE 100

\* the bracket width below which the bisection running stops
Epsilon == IF op = "optimal_trade_size" THEN L0_0001 ELSE L0_01

Converged == FLt(FSub(loc.high, loc.low), Epsilon)

\* C14: every optimizer terminates: optimal_trade_size makes at most 50
\* iterations, the two flashloan bisections at most 100, the scan exactly 100;
\* a bisection leaves its loop at the end of the first iteration after which
\* high - low is below its epsilon (1e-4 trade sizing, 1e-2 flashloan sizing),
\* and a call that is in its loop has not used up its iterations.
C14_OptimizersTerminate ==
    op \in Optimizers =>
        /\ loc.iter <= IterationCap
        /\ pc = "loop" => loc.iter < IterationCap
        /\ (op \in Bisections /\ pc = "loop" /\ loc.iter > 0) =>
              ~Converged /\ loc.iter < IterationCap
        /\ (op \in Bisections /\ pc = "exit") =>
              Converged \/ loc.iter = IterationCap
        /\ (op = "optimize_trade_size_quadratic" /\ pc \in { "exit", "done" }) =>
              loc.iter = 100

\* C14 happens: optimal_trade_size left its loop on convergence, after more
\* than one iteration and before the cap
C14_Witness ==
    /\ op = "optimal_trade_size" /\ pc = "exit"
    /\ loc.iter > 1 /\ loc.iter < 50
    /\ Converged

\* C14's cap happens: a bracket that never converged, all 50 iterations made
C14_WitnessCap ==
    /\ op = "optimal_trade_size" /\ pc = "exit"
    /\ loc.iter = 50
    /\ ~Converged

\* the risk bound of the bisection running: 10% of reserve_in, 30% of the
\* smaller input reserve, 30% of the liquidity
UpperBound ==
    IF op = "optimal_trade_size" THEN FMul(inp.reserve_in, L0_1)
    ELSE IF op = "calculate_flashloan_amount"
    THEN FMin(build, FMul(inp.reserve_in_buy, L0_3), FMul(inp.reserve_in_sell, L0_3))
    ELSE FMul(inp.liquidity, L0_3)

\* the best size the bisection running has recorded
BestSoFar == IF op = "optimal_trade_size" THEN loc.best_size ELSE loc.best_amount

\* C16: in the three bisections 0 <= low <= high <= upper_bound holds after
\* every iteration and the recorded best size lies in [0, upper_bound], so
\* the size a search returns never exceeds the bound (a call that a guard
\* turns away makes no search and returns 0).
C16_BracketWithinBound ==
    /\ (op \in Bisections /\ pc \in { "loop", "exit" }) =>
          /\ FLe(Zero, loc.low) /\ FLe(loc.low, loc.high)
          /\ FLe(loc.high, UpperBound)
          /\ FLe(Zero, BestSoFar) /\ FLe(BestSoFar, UpperBound)
    /\ (op \in Bisections /\ pc = "done" /\ ~NonPositiveArgument) =>
          FLe(Zero, ret) /\ FLe(ret, UpperBound)

\* C16 happens: after several iterations both ends of the bracket have moved
\* and a best size strictly inside the bound is recorded
C16_Witness ==
    /\ op \in Bisections /\ pc = "loop"
    /\ loc.iter >= 3
    /\ FGt(loc.low, Zero) /\ FLt(loc.high, UpperBound)
    /\ FGt(BestSoFar, Zero) /\ FLt(BestSoFar, UpperBound)

ScanDone == OptDone("optimize_trade_size_quadratic")

\* the evaluated points of the scan with a positive net profit
ProfitablePoints == { j \in 1..Len(loc.evals) : FGt(loc.evals[j].profit, Zero) }

\* the second half of C17: the scan returns 0 exactly when no point it
\* evaluated has a positive profit, and otherwise the first of the points of
\* greatest profit (a point the loop skips has amount <= 0)
ScanReturnsFirstBest ==
    ScanDone =>
        /\ FEq(ret, Zero) <=> (ProfitablePoints = {})
        /\ ProfitablePoints # {} =>
              \E j \in ProfitablePoints :
                  /\ ret = loc.evals[j].amount
                  /\ \A i \in 1..Len(loc.evals) :
                        FLe(loc.evals[i].profit, loc.evals[j].profit)
                  /\ \A i \in 1..(j - 1) :
                        FLt(loc.evals[i].profit, loc.evals[j].profit)

\* 30% of the smaller of the two pools' input reserves
ScanBound ==
    FMin(build, FMul(inp.buy_reserve_in, L0_3), FMul(inp.sell_reserve_in, L0_3))

\* C17: optimize_trade_size_quadratic evaluates 100 evenly spaced points that
\* cover the range from 0 up to and including 30% of the smaller input
\* reserve, and returns the first point of greatest net profit when that
\* profit is positive, 0 when no point has a positive profit.
C17_ScanCoversRange ==
    (ScanDone /\ FGt(ScanBound, Zero)) =>
        /\ Len(loc.points) = 100
        /\ FEq(loc.points[1], Zero)
        /\ loc.points[100] = ScanBound
        /\ \A j \in 1..99 : FLt(loc.points[j], loc.points[j + 1])
        /\ ScanReturnsFirstBest

-----------------------------------------------------------------------------
(* math.rs: calls of the slippage estimators *)

SlipReserves == { I(-10), Zero, I(10), I(1000) }
SlipAmounts  == { Zero, I(5), I(10) }
SlipSqrtPrices == { I(-2), Zero, I(2), I(5) }
Amplifications == { I(-100), Zero, I(100) }
\* 0.5^1075 is half the least subnormal f64, 0.5^-1075 is above every f64
Weights == { I(-1), Zero, I(1), I(2), I(1075) }
\* a liquidity that an amount of 1e-6 does not change, and that amount
DeepLiquidity == FMul(I(2000000), I(2000000))
SmallAmount == Fl(1, -6)
WeightsOut == { I(-1), Zero, I(1), I(2) }

InitSlip ==
    /\ pc = "entry"
    /\ loc = [div_by_zero |-> FALSE]
    /\ ret = NoRet
    /\ \/ /\ op = "compute_uniswap_v2_slippage"
          /\ build \in [equal_operands : EqualOperands]
          /\ \E ri \in SlipReserves, ro \in SlipReserves, a \in SlipAmounts :
                inp = [reserve_in |-> ri, reserve_out |-> ro, amount_in |-> a]
       \/ /\ op = "compute_uniswap_v3_slippage"
          /\ build \in [equal_operands : EqualOperands]
          /\ \E lq \in SlipReserves \cup { DeepLiquidity }, sp \in SlipSqrtPrices,
                a \in SlipAmounts \cup { SmallAmount } :
                inp = [liquidity |-> lq, sqrt_price |-> sp, amount_in |-> a]
       \/ /\ op = "compute_curve_slippage"
          /\ build \in [equal_operands : EqualOperands]
          /\ \E bi \in SlipReserves, bo \in SlipReserves, a \in SlipAmounts,
                amp \in Amplifications :
                inp = [balance_in |-> bi, balance_out |-> bo, amount_in |-> a,
                       amplification |-> amp]
       \/ /\ op = "compute_balancer_slippage"
          /\ build \in [equal_operands : EqualOperands, powf : PowfRoundings]
          /\ \E bi \in SlipReserves, bo \in SlipReserves, wi \in Weights,
                wo \in WeightsOut, a \in SlipAmounts :
                inp = [balance_in |-> bi, balance_out |-> bo, weight_in |-> wi,
                       weight_out |-> wo, amount_in |-> a]

\* a call of compute_uniswap_v2_slippage; div_by_zero records whether one of
\* its divisions had a zero divisor
V2SlippageCall ==
    /\ op = "compute_uniswap_v2_slippage" /\ pc = "entry"
    /\ ret' = compute_uniswap_v2_slippage(build, inp.reserve_in, inp.reserve_out,
                                          inp.amount_in)
    /\ loc' = [div_by_zero |->
                  DividesByZero(V2Divisors(inp.reserve_in, inp.reserve_out, inp.amount_in))]
    /\ pc' = "done"
    /\ UNCHANGED <<build, op, inp>>

V3SlippageCall ==
    /\ op = "compute_uniswap_v3_slippage" /\ pc = "entry"
    /\ ret' = compute_uniswap_v3_slippage(build, inp.liquidity, inp.sqrt_price,
                                          inp.amount_in)
    /\ loc' = [div_by_zero |->
                  DividesByZero(V3Divisors(inp.liquidity, inp.sqrt_price, inp.amount_in))]
    /\ pc' = "done"
    /\ UNCHANGED <<build, op, inp>>

CurveSlippageCall ==
    /\ op = "compute_curve_slippage" /\ pc = "entry"
    /\ ret' = compute_curve_slippage(build, inp.balance_in, inp.balance_out,
                                     inp.amount_in, inp.amplification)
    /\ loc' = [div_by_zero |->
                  DividesByZero(CurveDivisors(inp.balance_in, inp.balance_out,
                                         inp.amount_in, inp.amplification))]
    /\ pc' = "done"
    /\ UNCHANGED <<build, op, inp>>

BalancerSlippageCall ==
    /\ op = "compute_balancer_slippage" /\ pc = "entry"
    /\ ret' = compute_balancer_slippage(build, inp.balance_in, inp.balance_out,
                                        inp.weight_in, inp.weight_out,
                                        inp.amount_in)
    /\ loc' = [div_by_zero |->
                  DividesByZero(BalancerDivisors(inp.balance_in, inp.balance_out,
                                            inp.weight_in, inp.weight_out,
                                            inp.amount_in))]
    /\ pc' = "done"
    /\ UNCHANGED <<build, op, inp>>

NextSlip ==
    V2SlippageCall \/ V3SlippageCall \/ CurveSlippageCall \/ BalancerSlippageCall

SpecSlip == InitSlip /\ [][NextSlip]_vars

-----------------------------------------------------------------------------
(* Properties of the slippage estimators *)

SlippageEstimators ==
    { "compute_uniswap_v2_slippage", "compute_uniswap_v3_slippage",
      "compute_curve_slippage", "compute_balancer_slippage" }

\* some reserve, balance, liquidity or weight argument of the call is
\* non-positive
NonPositivePoolArgument ==
    IF op = "compute_uniswap_v2_slippage"
    THEN FLe(inp.reserve_in, Zero) \/ FLe(inp.reserve_out, Zero)
    ELSE IF op = "compute_uniswap_v3_slippage"
    THEN FLe(inp.liquidity, Zero)
    ELSE IF op = "compute_curve_slippage"
    THEN FLe(inp.balance_in, Zero) \/ FLe(inp.balance_out, Zero)
    ELSE \/ FLe(inp.balance_in, Zero) \/ FLe(inp.balance_out, Zero)
         \/ FLe(inp.weight_in, Zero) \/ FLe(inp.weight_out, Zero)

\* C10: a slippage estimator called with amount_in > 0 and a non-positive
\* reserve, balance, liquidity or weight returns 0, and evaluates no division
\* by zero.
C10_NonPositiveGivesZeroSlippage ==
    ( /\ op \in SlippageEstimators /\ pc = "done"
      /\ FGt(inp.amount_in, Zero)
      /\ NonPositivePoolArgument )
    => (FEq(ret, Zero) /\ ~loc.div_by_zero)


SlipDone == op \in SlippageEstimators /\ pc = "done"

\* every pool parameter of the call is positive
PositivePoolParameters ==
    IF op = "compute_uniswap_v2_slippage"
    THEN FGt(inp.reserve_in, Zero) /\ FGt(inp.reserve_out, Zero)
    ELSE IF op = "compute_uniswap_v3_slippage"
    THEN FGt(inp.liquidity, Zero) /\ FGt(inp.sqrt_price, Zero)
    ELSE IF op = "compute_curve_slippage"
    THEN /\ FGt(inp.balance_in, Zero) /\ FGt(inp.balance_out, Zero)
         /\ FGt(inp.amplification, Zero)
    ELSE /\ FGt(inp.balance_in, Zero) /\ FGt(inp.balance_out, Zero)
         /\ FGt(inp.weight_in, Zero) /\ FGt(inp.weight_out, Zero)

\* the actual and the ideal output of the call
SlipAmountsOf ==
    IF op = "compute_uniswap_v2_slippage"
    THEN V2Amounts(inp.reserve_in, inp.reserve_out, inp.amount_in)
    ELSE IF op = "compute_uniswap_v3_slippage"
    THEN V3Amounts(inp.liquidity, inp.sqrt_price, inp.amount_in)
    ELSE IF op = "compute_curve_slippage"
    THEN CurveAmounts(inp.balance_in, inp.balance_out, inp.amount_in, inp.amplification)
    ELSE BalancerAmounts(build, inp.balance_in, inp.balance_out, inp.weight_in,
                         inp.weight_out, inp.amount_in)

\* the actual output of the call is above its ideal output
OutputAboveIdeal == FGt(SlipAmountsOf.amount_out, SlipAmountsOf.expected_amount_out)

\* C11: for positive pool parameters and amount_in >= 0 every slippage
\* estimator returns a value >= 0, returns 0 when the actual output is above
\* the ideal output, and returns exactly 0 when amount_in = 0.
C11_SlippageClampedAtZero ==
    (SlipDone /\ PositivePoolParameters /\ FGe(inp.amount_in, Zero)) =>
        /\ FGe(ret, Zero)
        /\ OutputAboveIdeal => FEq(ret, Zero)
        /\ FEq(inp.amount_in, Zero) => FEq(ret, Zero)

\* C11 happens: a stableswap call whose actual output is above the ideal one
C11_Witness ==
    /\ SlipDone /\ PositivePoolParameters
    /\ op = "compute_curve_slippage"
    /\ FGt(inp.amount_in, Zero)
    /\ OutputAboveIdeal
    /\ FEq(ret, Zero)

\* C11 happens: a V3 call whose actual output is rounded above the ideal one
C11_WitnessV3 ==
    /\ SlipDone /\ PositivePoolParameters
    /\ op = "compute_uniswap_v3_slippage"
    /\ FGt(inp.amount_in, Zero)
    /\ OutputAboveIdeal
    /\ FEq(ret, Zero)

\* C11 happens: a weighted-pool call whose power is below the least subnormal
\* f64, and powf returns the least subnormal
C11_WitnessUnderflow ==
    /\ SlipDone /\ PositivePoolParameters
    /\ op = "compute_balancer_slippage"
    /\ inp.weight_in = I(1075) /\ inp.weight_out = I(1)
    /\ inp.balance_in = inp.amount_in
    /\ FPow(build, FDiv(inp.balance_in, FAdd(inp.balance_in, inp.amount_in)),
            FDiv(inp.weight_in, inp.weight_out))
          = [k |-> "fin", s |-> 0, m |-> <<1>>, e |-> MinExponent]
    /\ FEq(ret, Zero)

\* C11 happens: a positive slippage is returned as computed
C11_WitnessPositive ==
    /\ SlipDone /\ PositivePoolParameters
    /\ op = "compute_uniswap_v2_slippage"
    /\ FGt(inp.amount_in, Zero)
    /\ FGt(ret, Zero)

-----------------------------------------------------------------------------
(* math.rs: the path composers *)

\* mutant: only reserve_in is checked
RECURSIVE MultihopFrom_in_only(_, _, _, _, _)
MultihopFrom_in_only(bld, j, reserves, current_amount, total_slippage) ==
    IF j > Len(reserves) THEN total_slippage
    ELSE LET reserve_in  == reserves[j][1]
             reserve_out == reserves[j][2]
         IN  IF FLe(reserve_in, Zero) THEN L100
             ELSE LET hop_slippage == compute_uniswap_v2_slippage(bld,
                                          reserve_in, reserve_out, current_amount)
                      amount_in_with_fee == FMul(current_amount, L0_997)
                  IN  MultihopFrom_in_only(bld, j + 1, reserves,
                          FDiv(FMul(amount_in_with_fee, reserve_out),
                               FAdd(reserve_in, amount_in_with_fee)),
                          FAdd(total_slippage, hop_slippage))

\* lines 255-269: the loop of calculate_multihop_slippage from hop j on
RECURSIVE MultihopFrom(_, _, _, _, _)
MultihopFrom(bld, j, reserves, current_amount, total_slippage) ==
    IF j > Len(reserves) THEN total_slippage
    ELSE LET reserve_in  == reserves[j][1]
             reserve_out == reserves[j][2]
         IN  IF FLe(reserve_in, Zero) \/ FLe(reserve_out, Zero) THEN L100
             ELSE LET hop_slippage == compute_uniswap_v2_slippage(bld,
                                          reserve_in, reserve_out, current_amount)
                      amount_in_with_fee == FMul(current_amount, L0_997)
                  IN  MultihopFrom(bld, j + 1, reserves,
                          FDiv(FMul(amount_in_with_fee, reserve_out),
                               FAdd(reserve_in, amount_in_with_fee)),
                          FAdd(total_slippage, hop_slippage))

\* lines 244-270
calculate_multihop_slippage(bld, reserves, flashloan_amount) ==
    IF Len(reserves) = 0 \/ FLe(flashloan_amount, Zero) THEN Zero
    ELSE MultihopFrom(bld, 1, reserves, flashloan_amount, Zero)

\* lines 296-300: the output of a path from hop j on
RECURSIVE PathOutputFrom(_, _, _)
PathOutputFrom(j, path, current_amount) ==
    IF j > Len(path) THEN current_amount
    ELSE LET amount_in_with_fee == FMul(current_amount, L0_997)
         IN  PathOutputFrom(j + 1, path,
                 FDiv(FMul(amount_in_with_fee, path[j][2]),
                      FAdd(path[j][1], amount_in_with_fee)))

\* lines 287-309: the result pushed for the path at index idx (0-based)
PathResult(bld, path, flashloan_amount, flashloan_fee, gas_cost, idx) ==
    IF Len(path) = 0 \/ FLe(flashloan_amount, Zero)
    THEN <<Zero, Zero, idx>>
    ELSE LET current_amount == PathOutputFrom(1, path, flashloan_amount)
             flashloan_repayment == FMul(flashloan_amount, FAdd(One, flashloan_fee))
             profit == FSub(FSub(current_amount, flashloan_repayment), gas_cost)
             slippage == calculate_multihop_slippage(bld, path, flashloan_amount)
         IN  <<profit, slippage, idx>>

\* mutant: an empty path or a non-positive amount ends the loop
SimulateStep_break(bld, l, paths, flashloan_amounts, flashloan_fee, gas_costs) ==
    LET idx == l.idx
    IN  IF idx >= Len(flashloan_amounts) \/ idx >= Len(gas_costs)
        THEN [l EXCEPT !.broke = TRUE]
        ELSE IF Len(paths[idx + 1]) = 0 \/ FLe(flashloan_amounts[idx + 1], Zero)
        THEN [l EXCEPT !.broke = TRUE,
                       !.results = Append(l.results, <<Zero, Zero, idx>>)]
        ELSE [l EXCEPT !.idx = idx + 1,
                       !.results = Append(l.results,
                           PathResult(bld, paths[idx + 1], flashloan_amounts[idx + 1],
                                      flashloan_fee, gas_costs[idx + 1], idx))]

\* lines 282-310: one iteration of the loop over paths, at the 0-based l.idx
SimulateStep(bld, l, paths, flashloan_amounts, flashloan_fee, gas_costs) ==
    LET idx == l.idx
    IN  IF idx >= Len(flashloan_amounts) \/ idx >= Len(gas_costs)
        THEN [l EXCEPT !.broke = TRUE]
        ELSE [l EXCEPT !.idx = idx + 1,
                       !.results = Append(l.results,
                           PathResult(bld, paths[idx + 1], flashloan_amounts[idx + 1],
                                      flashloan_fee, gas_costs[idx + 1], idx))]

\* lib.rs filter_map: the (r[0], r[1]) of the entries with at least 2 numbers
RECURSIVE ReservePairs(_)
ReservePairs(raw) ==
    IF Len(raw) = 0 THEN <<>>
    ELSE IF Len(Head(raw)) >= 2
         THEN <<<<Head(raw)[1], Head(raw)[2]>>>> \o ReservePairs(Tail(raw))
         ELSE ReservePairs(Tail(raw))

\* the longest path given to calculate_multihop_slippage
MaxHops == 3
\* the longest list of paths, amounts and gas costs given to the batch
MaxBatch == 2

HopPools == { <<I(10), I(20)>>, <<I(20), I(10)>>, <<I(0), I(20)>>, <<I(10), I(-5)>> }
HopAmounts == { I(-1), Zero, I(5) }

RECURSIVE SeqsUpTo(_, _)
SeqsUpTo(S, n) ==
    IF n = 0 THEN { <<>> }
    ELSE LET shorter == SeqsUpTo(S, n - 1)
         IN  shorter \cup
             { Append(q, x) : q \in { r \in shorter : Len(r) = n - 1 }, x \in S }

\* the paths of a batch as the caller passes them: lists of number lists
RawPaths ==
    { <<>>,
      << <<I(10), I(20)>> >>,
      << <<I(10), I(20)>>, <<I(20), I(10), I(7)>> >>,
      << <<I(10)>>, <<I(20), I(10)>> >> }
AmountLists == { <<Zero, I(5), I(3), I(5)>>, <<I(5), I(-1), I(5), Zero>> }
GasLists    == { <<I(1), Zero, I(2), I(1)>> }

Prefix(q, n) == SubSeq(q, 1, n)

InitPath ==
    /\ build \in [equal_operands : EqualOperands]
    /\ pc = "entry"
    /\ ret = NoRet
    /\ \/ /\ op = "calculate_multihop_slippage"
          /\ \E r \in SeqsUpTo(HopPools, MaxHops), a \in HopAmounts :
                inp = [reserves |-> r, flashloan_amount |-> a]
          /\ loc = [idx |-> 0]
       \/ /\ op = "simulate_parallel_flashloan_paths"
          /\ \E ps \in SeqsUpTo(RawPaths, MaxBatch), al \in AmountLists,
                gl \in GasLists, na \in 0..MaxBatch, ng \in 0..MaxBatch :
                inp = [paths |-> ps, flashloan_amounts |-> Prefix(al, na),
                       flashloan_fee |-> Fl(9, -4), gas_costs |-> Prefix(gl, ng)]
          /\ loc = [idx |-> 0]

\* a call of calculate_multihop_slippage
MultihopCall ==
    /\ op = "calculate_multihop_slippage" /\ pc = "entry"
    /\ ret' = calculate_multihop_slippage(build, inp.reserves, inp.flashloan_amount)
    /\ pc' = "done"
    /\ UNCHANGED <<build, op, inp, loc>>

\* lib.rs lines 110-123 and math.rs line 280: the paths as tuples, no result yet
SimulateEnter ==
    /\ op = "simulate_parallel_flashloan_paths" /\ pc = "entry"
    /\ loc' = [path_tuples |-> [k \in 1..Len(inp.paths) |-> ReservePairs(inp.paths[k])],
               idx |-> 0, results |-> <<>>, broke |-> FALSE]
    /\ pc' = "loop"
    /\ UNCHANGED <<build, op, inp, ret>>

\* math.rs lines 282-310: one iteration of the loop over the paths
SimulateIterate ==
    /\ op = "simulate_parallel_flashloan_paths" /\ pc = "loop"
    /\ loc.idx < Len(loc.path_tuples) /\ ~loc.broke
    /\ loc' = SimulateStep(build, loc, loc.path_tuples, inp.flashloan_amounts,
                           inp.flashloan_fee, inp.gas_costs)
    /\ UNCHANGED <<build, op, pc, inp, ret>>

\* math.rs line 312 and lib.rs lines 132-135: the results as number lists
SimulateReturn ==
    /\ op = "simulate_parallel_flashloan_paths" /\ pc = "loop"
    /\ loc.idx >= Len(loc.path_tuples) \/ loc.broke
    /\ ret' = [k \in 1..Len(loc.results) |->
                  <<loc.results[k][1], loc.results[k][2], I(loc.results[k][3])>>]
    /\ pc' = "done"
    /\ UNCHANGED <<build, op, inp, loc>>

NextPath == MultihopCall \/ SimulateEnter \/ SimulateIterate \/ SimulateReturn

SpecPath == InitPath /\ [][NextPath]_vars

-----------------------------------------------------------------------------
(* Properties of the path composers *)

InvalidPool(pool) == FLe(pool[1], Zero) \/ FLe(pool[2], Zero)

MultihopDone == op = "calculate_multihop_slippage" /\ pc = "done"

\* C7: calculate_multihop_slippage returns 0 for an empty path or a
\* non-positive amount; for a non-empty path and a positive amount it returns
\* exactly 100 when a pool of the path has a non-positive reserve_in or
\* reserve_out, wherever that pool stands in the path.
C7_MultihopSentinels ==
    MultihopDone =>
        /\ (Len(inp.reserves) = 0 \/ FLe(inp.flashloan_amount, Zero)) => ret = Zero
        /\ ( /\ Len(inp.reserves) > 0
             /\ FGt(inp.flashloan_amount, Zero)
             /\ \E j \in 1..Len(inp.reserves) : InvalidPool(inp.reserves[j]) )
           => ret = I(100)

\* C7 happens: the invalid pool is the last of three, its reserve_out is the
\* non-positive one, and the hops before it had accumulated slippage
C7_Witness ==
    /\ MultihopDone
    /\ Len(inp.reserves) = 3
    /\ FGt(inp.flashloan_amount, Zero)
    /\ ~InvalidPool(inp.reserves[1]) /\ ~InvalidPool(inp.reserves[2])
    /\ FGt(inp.reserves[3][1], Zero) /\ FLe(inp.reserves[3][2], Zero)
    /\ FGt(calculate_multihop_slippage(build, Prefix(inp.reserves, 2), inp.flashloan_amount),
           Zero)
    /\ ret = I(100)

Min3(a, b, c) ==
    IF a <= b /\ a <= c THEN a ELSE IF b <= c THEN b ELSE c

SimulateDone == op = "simulate_parallel_flashloan_paths" /\ pc = "done"

\* C8: simulate_parallel_flashloan_paths returns min(len(paths),
\* len(flashloan_amounts), len(gas_costs)) results in input order; result k
\* carries path_index k and is computed from paths[k], flashloan_amounts[k],
\* gas_costs[k] and the fee alone; no index past the end of an input is read;
\* an empty path or a non-positive amount gives (0, 0, k) and the batch goes on.
C8_BatchAlignedPrefix ==
    /\ (op = "simulate_parallel_flashloan_paths" /\ pc = "loop") =>
          /\ loc.idx <= Min3(Len(inp.paths), Len(inp.flashloan_amounts),
                             Len(inp.gas_costs))
          /\ Len(loc.results) = loc.idx
    /\ SimulateDone =>
          /\ Len(ret) = Min3(Len(inp.paths), Len(inp.flashloan_amounts),
                             Len(inp.gas_costs))
          /\ \A k \in 1..Len(ret) :
                /\ ret[k][3] = I(k - 1)
                /\ <<ret[k][1], ret[k][2]>> =
                      LET r == PathResult(build, ReservePairs(inp.paths[k]),
                                          inp.flashloan_amounts[k],
                                          inp.flashloan_fee, inp.gas_costs[k], k - 1)
                      IN  <<r[1], r[2]>>
                /\ ( \/ Len(ReservePairs(inp.paths[k])) = 0
                     \/ FLe(inp.flashloan_amounts[k], Zero) )
                   => ret[k] = <<Zero, Zero, I(k - 1)>>

\* C8 happens: three lists of two elements, the first path gives (0, 0, 0),
\* and a computed result follows it
C8_Witness ==
    /\ SimulateDone
    /\ Len(inp.paths) = 2 /\ Len(inp.flashloan_amounts) = 2
    /\ Len(inp.gas_costs) = 2
    /\ ret[1] = <<Zero, Zero, Zero>>
    /\ Len(ret) = 2
    /\ ret[2][1] # Zero /\ ret[2][2] # Zero

\* C8's truncation happens: more paths than amounts
C8_WitnessTruncated ==
    /\ SimulateDone
    /\ Len(inp.paths) = 2 /\ Len(inp.flashloan_amounts) = 1
    /\ Len(inp.gas_costs) = 2
    /\ Len(ret) = 1


-----------------------------------------------------------------------------
(* lib.rs: batch_evaluate_opportunities.  The function of math.rs it calls is
   not in the sources; EvaluateOpportunity follows the description of the
   batch evaluator: the steps of the pipeline without the TWAP step, on one
   4-tuple of reserves. *)

\* lib.rs lines 324-333: the 4-tuples of the entries with at least 4 numbers
RECURSIVE OppTuples(_)
OppTuples(raw) ==
    IF Len(raw) = 0 THEN <<>>
    ELSE IF Len(Head(raw)) >= 4
         THEN <<SubSeq(Head(raw), 1, 4)>> \o OppTuples(Tail(raw))
         ELSE OppTuples(Tail(raw))

\* the profit gate on one tuple
GatedResult(optimal_amount, expected_profit, config) ==
    <<FGe(expected_profit, config.min_profit_threshold), optimal_amount,
      expected_profit>>

\* estimate and gate on one tuple whose buy and sell pools are b
SizedResult(b, optimal_amount, config) ==
    IF FLe(optimal_amount, Zero) THEN <<FALSE, Zero, Zero>>
    ELSE GatedResult(optimal_amount,
                     estimate_arbitrage_profit(b.buy_res_in, b.buy_res_out,
                                               b.sell_res_in, b.sell_res_out,
                                               optimal_amount, config.gas_cost,
                                               config.flashloan_fee_pct),
                     config)

\* optimize, estimate and gate on one tuple whose buy and sell pools are b
DirectedResult(bld, b, config) ==
    SizedResult(b,
                optimize_trade_size_quadratic(bld, b.buy_res_in, b.buy_res_out,
                                              b.sell_res_in, b.sell_res_out,
                                              config.gas_cost,
                                              config.flashloan_fee_pct),
                config)

\* detect, optimize, estimate and gate on one 4-tuple: the result of the
\* steps BatchDetect, BatchOptimize and BatchGate
EvaluateOpportunity(bld, opp, config) ==
    LET d == identify_arbitrage_opportunity(bld, opp[1], opp[2], opp[3], opp[4], config.min_price_diff_pct)
    IN  IF ~d.has_opportunity THEN <<FALSE, Zero, Zero>>
        ELSE DirectedResult(bld,
                 IF d.direction = 1
                 THEN [buy_res_in |-> opp[1], buy_res_out |-> opp[2],
                       sell_res_in |-> opp[3], sell_res_out |-> opp[4]]
                 ELSE [buy_res_in |-> opp[3], buy_res_out |-> opp[4],
                       sell_res_in |-> opp[1], sell_res_out |-> opp[2]],
                 config)

\* lib.rs lines 348-352: a result as a list of three numbers
ResultNumbers(r) == <<IF r[1] THEN I(1) ELSE Zero, r[2], r[3]>>

\* the longest list of opportunities given to the batch
MaxOpps == 2

\* the entries as the caller passes them: lists of numbers
RawOpportunities ==
    { <<I(10), I(21), I(10), I(20), I(7)>>,
      <<I(0), I(20), I(10), I(40)>>,
      <<I(10), I(20), I(10)>> }

BatchConfigs ==
    { Config(Zero, I(5), I(10), I(3)), Config(I(5), I(5), I(10), I(3)) }

InitBatch ==
    /\ build \in [equal_operands : EqualOperands]
    /\ op = "batch_evaluate_opportunities"
    /\ pc = "entry"
    /\ \E os \in SeqsUpTo(RawOpportunities, MaxOpps), c \in BatchConfigs :
          inp = [opportunities |-> os, config |-> c]
    /\ loc = [idx |-> 0]
    /\ ret = NoRet

\* lib.rs lines 324-341: the tuples and the configuration handed to math.rs
BatchEnter ==
    /\ op = "batch_evaluate_opportunities" /\ pc = "entry"
    /\ loc' = [opp_tuples |-> OppTuples(inp.opportunities),
               math_config |-> inp.config, idx |-> 0, results |-> <<>>]
    /\ pc' = "evaluate"
    /\ UNCHANGED <<build, op, inp, ret>>

\* the entry at l.idx (0-based) gets the result r; the next entry is taken up
BatchPush(l, r) ==
    [opp_tuples |-> l.opp_tuples, math_config |-> l.math_config,
     idx |-> l.idx + 1, results |-> Append(l.results, r)]

\* detect on the tuple at loc.idx: no opportunity gives (false, 0, 0)
BatchDetect ==
    /\ op = "batch_evaluate_opportunities" /\ pc = "evaluate"
    /\ loc.idx < Len(loc.opp_tuples)
    /\ LET opp == loc.opp_tuples[loc.idx + 1]
           d == identify_arbitrage_opportunity(build, opp[1], opp[2], opp[3], opp[4], loc.math_config.min_price_diff_pct)
       IN  IF ~d.has_opportunity
           THEN loc' = BatchPush(loc, <<FALSE, Zero, Zero>>) /\ UNCHANGED pc
           ELSE /\ loc' = Ext(loc,
                     IF d.direction = 1
                     THEN [buy_res_in |-> opp[1], buy_res_out |-> opp[2],
                           sell_res_in |-> opp[3], sell_res_out |-> opp[4]]
                     ELSE [buy_res_in |-> opp[3], buy_res_out |-> opp[4],
                           sell_res_in |-> opp[1], sell_res_out |-> opp[2]])
                /\ pc' = "optimize"
    /\ UNCHANGED <<build, op, inp, ret>>

\* the locals once the size of the tuple at l.idx is known
BatchSized(l, optimal_amount) ==
    IF FLe(optimal_amount, Zero) THEN BatchPush(l, <<FALSE, Zero, Zero>>)
    ELSE Ext(l, [optimal_amount |-> optimal_amount])

\* optimize on the tuple at loc.idx: no size gives (false, 0, 0)
BatchOptimize ==
    /\ op = "batch_evaluate_opportunities" /\ pc = "optimize"
    /\ loc' = BatchSized(loc, optimize_trade_size_quadratic(build,
                                  loc.buy_res_in, loc.buy_res_out,
                                  loc.sell_res_in, loc.sell_res_out,
                                  loc.math_config.gas_cost,
                                  loc.math_config.flashloan_fee_pct))
    /\ pc' = IF loc'.idx = loc.idx THEN "gate" ELSE "evaluate"
    /\ UNCHANGED <<build, op, inp, ret>>

\* estimate and gate on the tuple at loc.idx
BatchGate ==
    /\ op = "batch_evaluate_opportunities" /\ pc = "gate"
    /\ loc' = BatchPush(loc,
                  GatedResult(loc.optimal_amount,
                              estimate_arbitrage_profit(
                                  loc.buy_res_in, loc.buy_res_out,
                                  loc.sell_res_in, loc.sell_res_out,
                                  loc.optimal_amount, loc.math_config.gas_cost,
                                  loc.math_config.flashloan_fee_pct),
                              loc.math_config))
    /\ pc' = "evaluate"
    /\ UNCHANGED <<build, op, inp, ret>>

\* lib.rs lines 345-354: the results as lists of numbers
BatchReturn ==
    /\ op = "batch_evaluate_opportunities" /\ pc = "evaluate"
    /\ loc.idx >= Len(loc.opp_tuples)
    /\ ret' = [k \in 1..Len(loc.results) |-> ResultNumbers(loc.results[k])]
    /\ pc' = "done"
    /\ UNCHANGED <<build, op, inp, loc>>

NextBatch == BatchEnter \/ BatchDetect \/ BatchOptimize \/ BatchGate \/ BatchReturn

SpecBatch == InitBatch /\ [][NextBatch]_vars

-----------------------------------------------------------------------------
(* Properties of the batch evaluator *)

BatchDone == op = "batch_evaluate_opportunities" /\ pc = "done"

\* C9: batch_evaluate_opportunities returns one (should_execute,
\* optimal_amount, profit) per input entry, in input order: the output is as
\* long as the input list, and result i is the outcome of detect, optimize,
\* estimate and the profit gate on entry i alone.
C9_OneResultPerEntry ==
    BatchDone =>
        /\ Len(ret) = Len(inp.opportunities)
        /\ \A k \in 1..Len(ret) :
              Len(inp.opportunities[k]) >= 4 =>
                 ret[k] = ResultNumbers(
                              EvaluateOpportunity(build, inp.opportunities[k], inp.config))


-----------------------------------------------------------------------------
(* math.rs: calculate_twap and compute_aggregator_slippage, called alone *)

\* the longest sequence of samples given to calculate_twap
MaxTwapSamples == 3
\* the longest sequence of slippages given to compute_aggregator_slippage
MaxRoutes == 4

TwapTimestamps == { Zero, I(3), I(10) }
TwapPrices == { I(2), Fl(1, -1), I(5) }
TwapSamplePoints == { <<t, p>> : t \in TwapTimestamps, p \in TwapPrices }

\* slippages as the estimators return them; a slippage of zero is +0.0 or -0.0
RouteSlippages == { Zero, NegZero, I(1), PosInf }

\* the builds of a fold over n elements: the loop is unrolled, and the f64::min
\* of each iteration returns self or the other of two operands that compare
\* equal
FoldBuilds(n) == [fold : [1..n -> [equal_operands : EqualOperands]]]

\* mutant: the fold keeps the last element
compute_aggregator_slippage_last(bld, slippages) ==
    IF Len(slippages) = 0 THEN Zero ELSE slippages[Len(slippages)]

\* line 106: fold(f64::INFINITY, f64::min) from element j on; bld.fold[j] is
\* the build's choice in iteration j
RECURSIVE FoldMin(_, _, _, _)
FoldMin(bld, j, slippages, acc) ==
    IF j > Len(slippages) THEN acc
    ELSE FoldMin(bld, j + 1, slippages, FMin(bld.fold[j], acc, slippages[j]))

\* lines 100-107
compute_aggregator_slippage(bld, slippages) ==
    IF Len(slippages) = 0 THEN Zero ELSE FoldMin(bld, 1, slippages, PosInf)

InitAvg ==
    /\ pc = "entry"
    /\ ret = NoRet
    /\ loc = [idx |-> 0]
    /\ \/ /\ op = "calculate_twap"
          /\ build \in FoldBuilds(0)
          /\ \E q \in SeqsUpTo(TwapSamplePoints, MaxTwapSamples) :
                inp = [price_samples |-> q]
       \/ /\ op = "compute_aggregator_slippage"
          /\ \E q \in SeqsUpTo(RouteSlippages, MaxRoutes) :
                /\ inp = [slippages |-> q]
                /\ build \in FoldBuilds(Len(q))

\* a call of calculate_twap
TwapCall ==
    /\ op = "calculate_twap" /\ pc = "entry"
    /\ ret' = calculate_twap(inp.price_samples)
    /\ pc' = "done"
    /\ UNCHANGED <<build, op, inp, loc>>

\* a call of compute_aggregator_slippage
AggregatorCall ==
    /\ op = "compute_aggregator_slippage" /\ pc = "entry"
    /\ ret' = compute_aggregator_slippage(build, inp.slippages)
    /\ pc' = "done"
    /\ UNCHANGED <<build, op, inp, loc>>

NextAvg == TwapCall \/ AggregatorCall

SpecAvg == InitAvg /\ [][NextAvg]_vars

-----------------------------------------------------------------------------
(* Properties of calculate_twap and compute_aggregator_slippage *)

TwapDone == op = "calculate_twap" /\ pc = "done"

StrictlyAscending(q) ==
    \A j \in 1..(Len(q) - 1) : FLt(q[j][1], q[j + 1][1])

\* the sum of (left price * interval to the next sample) over the pairs 1..n
RECURSIVE LeftWeightedSum(_, _)
LeftWeightedSum(q, n) ==
    IF n = 0 THEN Zero
    ELSE FAdd(LeftWeightedSum(q, n - 1),
              FMul(q[n][2], FSub(q[n + 1][1], q[n][1])))

SamplePrices(q) == { q[j][2] : j \in 1..Len(q) }

\* the time-weighted-average part of C12
TwapIsLeftWeightedAverage ==
    (TwapDone /\ Len(inp.price_samples) >= 2 /\ StrictlyAscending(inp.price_samples))
    => ret = FDiv(LeftWeightedSum(inp.price_samples, Len(inp.price_samples) - 1),
                  FSub(inp.price_samples[Len(inp.price_samples)][1],
                       inp.price_samples[1][1]))

\* C12: calculate_twap returns 0 for fewer than 2 samples; for 2 or more
\* samples with strictly ascending timestamps it returns the sum of (left
\* price * interval to the next sample) divided by the elapsed time, and the
\* value lies between the least and the greatest sample price.
C12_TwapWeightedAverageInRange ==
    /\ (TwapDone /\ Len(inp.price_samples) < 2) => ret = Zero
    /\ TwapIsLeftWeightedAverage
    /\ (TwapDone /\ Len(inp.price_samples) >= 2 /\ StrictlyAscending(inp.price_samples))
       => /\ \E p \in SamplePrices(inp.price_samples) : FLe(p, ret)
          /\ \E p \in SamplePrices(inp.price_samples) : FLe(ret, p)

AggregatorDone == op = "compute_aggregator_slippage" /\ pc = "done"

\* the orders of n elements, and those of every length of a sequence of
\* slippages
Orders(n) == { g \in [1..n -> 1..n] : \A x, y \in 1..n : g[x] = g[y] => x = y }
RouteOrders == [n \in 0..MaxRoutes |-> Orders(n)]

\* the rearrangements of the sequence q
Rearrangements(q) == { [j \in 1..Len(q) |-> q[f[j]]] : f \in RouteOrders[Len(q)] }

\* C15: compute_aggregator_slippage returns 0 for an empty sequence; for a
\* non-empty one it returns a member of the sequence that is <= every member,
\* and a value that == it for every order of the elements (of +0.0 and -0.0
\* the order and the build decide which is returned).
C15_AggregatorMinimum ==
    AggregatorDone =>
        /\ Len(inp.slippages) = 0 => ret = Zero
        /\ Len(inp.slippages) > 0 =>
              /\ \E j \in 1..Len(inp.slippages) : ret = inp.slippages[j]
              /\ \A j \in 1..Len(inp.slippages) : FLe(ret, inp.slippages[j])
              /\ \A q \in Rearrangements(inp.slippages) :
                    FEq(compute_aggregator_slippage(build, q), ret)

\* C15 happens: zeros of both signs after a greater slippage, and the zero
\* returned is the -0.0 between two +0.0
C15_WitnessZeros ==
    /\ AggregatorDone
    /\ inp.slippages = <<I(1), Zero, NegZero, Zero>>
    /\ ret = NegZero

\* C15 happens: three different slippages, the least of them in the middle
C15_Witness ==
    /\ AggregatorDone
    /\ Len(inp.slippages) = 3
    /\ FLt(inp.slippages[2], inp.slippages[1])
    /\ FLt(inp.slippages[2], inp.slippages[3])
    /\ inp.slippages[1] # inp.slippages[3]
    /\ ret = inp.slippages[2]

=============================================================================
